---- MODULE Spec2Model ----
(***************************************************************************)
(* Model of the cora-cli sensitive-data filter (package filter), of the    *)
(* policy merge, and of the upload and review commands that drive them.    *)
(*                                                                         *)
(* Go strings are modelled as sequences of one-character strings, so that  *)
(* substring matching, case folding and path formatting are computed the   *)
(* way the code computes them.  Values decoded by encoding/json into       *)
(* interface{} are modelled as tagged records (JNull, JStr, JBool, JObj,   *)
(* JArr).                                                                  *)
(***************************************************************************)
EXTENDS Integers, Sequences, FiniteSets, TLC

VARIABLES
  attrName,     \* AttributeMatchingPattern: the attribute name given
  patterns,     \* AttributeMatchingPattern: the ordered pattern list given
  matched,      \* AttributeMatchingPattern: what the call returned
  document,     \* Filter / FilterPlan: the decoded input document
  projectConfig, \* the .cora.yaml that LoadConfig found, or NoConfigFile
  fragment,     \* the sensitiveFiltering section of the discovery document
  result,       \* the *FilterResult of filtering document
  refiltered,   \* the *FilterResult of filtering result.FilteredJSON again
  invocation,   \* cora upload / cora review: the command, its flags and environment
  server,       \* what the server answers to the discovery request
  proc,         \* runUpload / runReview: position and locals of the run
  requests,     \* the upload requests the run has sent
  report,       \* report.go: the omissions given to a printer and what it printed
  workflow,     \* cora atlantis: the workflow whose plan and apply steps are edited
  environ,      \* environment detection: the process environment and what Detect found
  cache,        \* discovery.go: the package-level cache, its lock and the clock
  calls         \* discovery.go: the concurrent calls, their positions and locals

matchVars == <<attrName, patterns, matched>>

filterVars == <<document, projectConfig, fragment, result, refiltered>>

cmdVars == <<invocation, server, proc, requests>>

toolVars == <<report, workflow, environ, cache, calls>>

vars == <<attrName, patterns, matched, document, projectConfig, fragment, result, refiltered,
          invocation, server, proc, requests, report, workflow, environ, cache, calls>>

(***************************************************************************)
(* Bounds of the model.                                                    *)
(***************************************************************************)
MaxNameLen == 3
MaxPatternLen == 2
MaxPatterns == 2

SeqsUpTo(S, n) == UNION {[1..k -> S] : k \in 0..n}

(***************************************************************************)
(* internal/filter/patterns.go                                             *)
(***************************************************************************)
DefaultOmitResourceTypes ==
  << <<"a","w","s","_","s","e","c","r","e","t","s","m","a","n","a","g","e","r","_","s","e","c","r","e","t","_","v","e","r","s","i","o","n">>,
     <<"a","w","s","_","s","s","m","_","p","a","r","a","m","e","t","e","r">>,
     <<"r","a","n","d","o","m","_","p","a","s","s","w","o","r","d">>,
     <<"r","a","n","d","o","m","_","s","t","r","i","n","g">>,
     <<"t","l","s","_","p","r","i","v","a","t","e","_","k","e","y">>,
     <<"a","c","m","e","_","c","e","r","t","i","f","i","c","a","t","e">>,
     <<"t","l","s","_","s","e","l","f","_","s","i","g","n","e","d","_","c","e","r","t">>,
     <<"t","l","s","_","l","o","c","a","l","l","y","_","s","i","g","n","e","d","_","c","e","r","t">>,
     <<"v","a","u","l","t","_","g","e","n","e","r","i","c","_","s","e","c","r","e","t">>,
     <<"v","a","u","l","t","_","k","v","_","s","e","c","r","e","t">>,
     <<"v","a","u","l","t","_","k","v","_","s","e","c","r","e","t","_","v","2">>,
     <<"a","z","u","r","e","r","m","_","k","e","y","_","v","a","u","l","t","_","s","e","c","r","e","t">>,
     <<"a","z","u","r","e","r","m","_","k","e","y","_","v","a","u","l","t","_","k","e","y">>,
     <<"a","z","u","r","e","r","m","_","k","e","y","_","v","a","u","l","t","_","c","e","r","t","i","f","i","c","a","t","e">>,
     <<"g","o","o","g","l","e","_","s","e","c","r","e","t","_","m","a","n","a","g","e","r","_","s","e","c","r","e","t","_","v","e","r","s","i","o","n">> >>

DefaultOmitAttributes ==
  << <<"p","a","s","s","w","o","r","d">>,
     <<"m","a","s","t","e","r","_","p","a","s","s","w","o","r","d">>,
     <<"a","d","m","i","n","_","p","a","s","s","w","o","r","d">>,
     <<"r","o","o","t","_","p","a","s","s","w","o","r","d">>,
     <<"d","b","_","p","a","s","s","w","o","r","d">>,
     <<"s","e","c","r","e","t">>,
     <<"s","e","c","r","e","t","_","s","t","r","i","n","g">>,
     <<"s","e","c","r","e","t","_","b","i","n","a","r","y">>,
     <<"a","p","i","_","k","e","y">>,
     <<"a","p","i","_","s","e","c","r","e","t">>,
     <<"t","o","k","e","n">>,
     <<"a","u","t","h","_","t","o","k","e","n">>,
     <<"a","c","c","e","s","s","_","t","o","k","e","n">>,
     <<"r","e","f","r","e","s","h","_","t","o","k","e","n">>,
     <<"p","r","i","v","a","t","e","_","k","e","y">>,
     <<"p","r","i","v","a","t","e","_","k","e","y","_","p","e","m">>,
     <<"p","r","i","v","a","t","e","_","k","e","y","_","o","p","e","n","s","s","h">>,
     <<"s","s","h","_","p","r","i","v","a","t","e","_","k","e","y">>,
     <<"a","c","c","e","s","s","_","k","e","y">>,
     <<"s","e","c","r","e","t","_","k","e","y">>,
     <<"s","e","c","r","e","t","_","a","c","c","e","s","s","_","k","e","y">>,
     <<"c","r","e","d","e","n","t","i","a","l">>,
     <<"c","r","e","d","e","n","t","i","a","l","s">>,
     <<"c","o","n","n","e","c","t","i","o","n","_","s","t","r","i","n","g">>,
     <<"c","o","n","n","e","c","t","i","o","n","_","u","r","l">>,
     <<"c","e","r","t","i","f","i","c","a","t","e","_","p","e","m">>,
     <<"c","e","r","t","i","f","i","c","a","t","e","_","c","h","a","i","n">>,
     <<"i","s","s","u","e","r","_","p","e","m">>,
     <<"s","e","n","s","i","t","i","v","e","_","v","a","l","u","e">>,
     <<"e","n","c","r","y","p","t","e","d","_","v","a","l","u","e">> >>


UpperChars ==
  <<"A","B","C","D","E","F","G","H","I","J","K","L","M",
    "N","O","P","Q","R","S","T","U","V","W","X","Y","Z">>

LowerChars ==
  <<"a","b","c","d","e","f","g","h","i","j","k","l","m",
    "n","o","p","q","r","s","t","u","v","w","x","y","z">>

\* c >= 'A' && c <= 'Z'  =>  c += 'a' - 'A'
toLowerChar(c) ==
  IF \E i \in 1..Len(UpperChars) : UpperChars[i] = c
    THEN LowerChars[CHOOSE i \in 1..Len(UpperChars) : UpperChars[i] = c]
    ELSE c

toLowerCase(s) == [i \in 1..Len(s) |-> toLowerChar(s[i])]

\* s[i:i+len(substr)] == substr for some 0 <= i <= len(s)-len(substr)
containsIgnoreCase(s, substr) ==
  IF Len(substr) > Len(s)
    THEN FALSE
    ELSE \E i \in 0..(Len(s) - Len(substr)) :
           SubSeq(s, i + 1, i + Len(substr)) = substr

\* The pattern at the least of the indices hits, if any.
firstMatch(pats, hits) ==
  IF hits = {}
    THEN [pattern |-> <<>>, found |-> FALSE]
    ELSE [pattern |-> pats[CHOOSE i \in hits : \A j \in hits : i <= j], found |-> TRUE]

\* The first pattern, in list order, that the lowered name contains.
AttributeMatchingPattern(name, pats) ==
  firstMatch(pats, {i \in 1..Len(pats) : containsIgnoreCase(toLowerCase(name), pats[i])})

AttributeContainsPattern(name, pats) == AttributeMatchingPattern(name, pats).found

ResourceTypeMatches(resourceType, types) ==
  \E i \in 1..Len(types) : resourceType = types[i]

(***************************************************************************)
(* Values decoded by encoding/json into interface{}: nil, string, float64, *)
(* bool, map[string]interface{} and []interface{}.  A Go map is a function *)
(* from key strings to values, a slice is a sequence.                      *)
(***************************************************************************)
JNull == [k |-> "null"]

JStr(s) == [k |-> "str", s |-> s]

JNum(n) == [k |-> "num", n |-> n]

JBool(b) == [k |-> "bool", b |-> b]

JObj(f) == [k |-> "obj", o |-> f]

JArr(a) == [k |-> "arr", a |-> a]

\* Concatenation of a sequence of sequences, in order.
RECURSIVE Flatten(_)
Flatten(ss) == IF ss = <<>> THEN <<>> ELSE Head(ss) \o Flatten(Tail(ss))

RECURSIVE SetToSeq(_)
SetToSeq(S) ==
  IF S = {} THEN <<>> ELSE LET x == CHOOSE y \in S : TRUE IN <<x>> \o SetToSeq(S \ {x})

\* The keys of Go map f in the order one `for key := range f` visits them:
\* the order is unspecified, ord is the one this run takes.
RangeKeys(f, ord) ==
  SelectSeq(ord, LAMBDA key : key \in DOMAIN f)
    \o SetToSeq({key \in DOMAIN f : \A i \in 1..Len(ord) : ord[i] # key})

\* strconv for %d of a non-negative int.
RECURSIVE Itoa(_)
Itoa(n) ==
  LET digits == <<"0","1","2","3","4","5","6","7","8","9">>
  IN IF n < 10 THEN <<digits[n + 1]>> ELSE Itoa(n \div 10) \o <<digits[(n % 10) + 1]>>

\* fmt's %v of an index_key: a number prints its digits, a string itself.
FormatValue(v) ==
  CASE v.k = "num" -> Itoa(v.n)
    [] v.k = "str" -> v.s
    [] v.k = "bool" -> IF v.b THEN <<"t","r","u","e">> ELSE <<"f","a","l","s","e">>
    [] OTHER -> <<"<","n","i","l",">">>

(***************************************************************************)
(* config.go: FilterConfig, MergedConfig, GetMergedConfig,                 *)
(* MergeWithPlatformSettings.  A *bool of the YAML file is "unset",        *)
(* "true" or "false".                                                      *)
(***************************************************************************)
NoConfigFile == [present |-> FALSE]

\* LoadConfig's result: loadErr (unreadable or malformed file), or cfg,
\* which is NoConfigFile when no .cora.yaml was found.
GetMergedConfig(loadErr, cfg) ==
  IF loadErr
    THEN [err |-> TRUE, configSource |-> "", merged |-> JNull]
    ELSE
      LET pick(ptr, default) == IF ptr = "unset" THEN default ELSE ptr = "true"
      IN [err |-> FALSE,
          configSource |-> IF cfg.present THEN ".cora.yaml" ELSE "defaults",
          merged |->
            [OmitResourceTypes |->
               IF cfg.present /\ Len(cfg.OmitResourceTypes) > 0
                 THEN DefaultOmitResourceTypes \o cfg.OmitResourceTypes
                 ELSE DefaultOmitResourceTypes,
             OmitAttributes |->
               IF cfg.present /\ Len(cfg.OmitAttributes) > 0
                 THEN DefaultOmitAttributes \o cfg.OmitAttributes
                 ELSE DefaultOmitAttributes,
             PreserveAttributes |->
               IF cfg.present /\ Len(cfg.PreserveAttributes) > 0
                 THEN cfg.PreserveAttributes
                 ELSE <<>>,
             HonorTerraformSensitive |->
               IF cfg.present THEN pick(cfg.HonorTerraformSensitive, TRUE) ELSE TRUE,
             OmitDataSources |->
               IF cfg.present THEN pick(cfg.OmitDataSources, TRUE) ELSE TRUE,
             PlatformOmitResourceTypes |-> <<>>,
             PlatformOmitAttributes |-> <<>>]]

\* A faulty variant of MergeWithPlatformSettings: the platform's lists
\* replace the merged lists instead of being appended to them.
MergeWithPlatformSettingsReplacing(m, additionalTypes, additionalAttributes) ==
  [m EXCEPT
     !.PlatformOmitResourceTypes =
        IF Len(additionalTypes) > 0 THEN additionalTypes ELSE @,
     !.OmitResourceTypes =
        IF Len(additionalTypes) > 0 THEN additionalTypes ELSE @,
     !.PlatformOmitAttributes =
        IF Len(additionalAttributes) > 0 THEN additionalAttributes ELSE @,
     !.OmitAttributes =
        IF Len(additionalAttributes) > 0 THEN additionalAttributes ELSE @]

MergeWithPlatformSettings(m, additionalTypes, additionalAttributes) ==
  [m EXCEPT
     !.PlatformOmitResourceTypes =
        IF Len(additionalTypes) > 0 THEN additionalTypes ELSE @,
     !.OmitResourceTypes =
        IF Len(additionalTypes) > 0 THEN @ \o additionalTypes ELSE @,
     !.PlatformOmitAttributes =
        IF Len(additionalAttributes) > 0 THEN additionalAttributes ELSE @,
     !.OmitAttributes =
        IF Len(additionalAttributes) > 0 THEN @ \o additionalAttributes ELSE @]

(***************************************************************************)
(* filter.go: the attribute-tree redactor shared by Filter and FilterPlan. *)
(* Where the code binds a local and reads it several times, the model      *)
(* passes the value to a helper operator that reads its parameter.         *)
(***************************************************************************)
\* strings.EqualFold on the ASCII names of the model.
EqualFold(s, t) == toLowerCase(s) = toLowerCase(t)

isPreserved(name, preservePatterns) ==
  \E i \in 1..Len(preservePatterns) : EqualFold(name, preservePatterns[i])

OmittedField(path, reason, type, fromPlatform) ==
  [Path |-> path, Reason |-> reason, Type |-> type, FromPlatform |-> fromPlatform]

\* fmt.Sprintf("matches pattern '%s'", matchedPattern)
MatchesPatternReason(matchedPattern) == <<"matches pattern '">> \o matchedPattern \o <<"'">>

\* A faulty variant of attributeDecision: the preserve list is consulted
\* after the omit sources instead of before them.
attributeDecisionOmitFirst(key, cfg, terraformSensitive) ==
  LET platformMatch == AttributeMatchingPattern(key, cfg.PlatformOmitAttributes)
      patternMatch == AttributeMatchingPattern(key, cfg.OmitAttributes)
  IN IF platformMatch.found
       THEN [action |-> "omit", Reason |-> MatchesPatternReason(platformMatch.pattern),
             FromPlatform |-> TRUE]
     ELSE IF patternMatch.found
       THEN [action |-> "omit", Reason |-> MatchesPatternReason(patternMatch.pattern),
             FromPlatform |-> FALSE]
     ELSE IF cfg.HonorTerraformSensitive /\ key \in terraformSensitive
       THEN [action |-> "omit", Reason |-> <<"marked as sensitive by Terraform">>,
             FromPlatform |-> FALSE]
     ELSE IF isPreserved(key, cfg.PreserveAttributes)
       THEN [action |-> "preserve", Reason |-> <<>>, FromPlatform |-> FALSE]
     ELSE [action |-> "descend", Reason |-> <<>>, FromPlatform |-> FALSE]

\* The checks filterAttributes makes on one key, in the order it makes them.
attributeDecision(key, cfg, terraformSensitive) ==
  LET platformMatch == AttributeMatchingPattern(key, cfg.PlatformOmitAttributes)
      patternMatch == AttributeMatchingPattern(key, cfg.OmitAttributes)
  IN IF isPreserved(key, cfg.PreserveAttributes)
       THEN [action |-> "preserve", Reason |-> <<>>, FromPlatform |-> FALSE]
     ELSE IF platformMatch.found
       THEN [action |-> "omit", Reason |-> MatchesPatternReason(platformMatch.pattern),
             FromPlatform |-> TRUE]
     ELSE IF patternMatch.found
       THEN [action |-> "omit", Reason |-> MatchesPatternReason(patternMatch.pattern),
             FromPlatform |-> FALSE]
     ELSE IF cfg.HonorTerraformSensitive /\ key \in terraformSensitive
       THEN [action |-> "omit", Reason |-> <<"marked as sensitive by Terraform">>,
             FromPlatform |-> FALSE]
     ELSE [action |-> "descend", Reason |-> <<>>, FromPlatform |-> FALSE]

RECURSIVE filterAttributes(_, _, _, _, _)
RECURSIVE filterArray(_, _, _, _, _)
RECURSIVE filterEntry(_, _, _, _, _, _)

\* filtered[key] = nestedFiltered; omissions = append(omissions, nestedOmissions...)
nestedEntry(nested) ==
  [keep |-> TRUE, value |-> nested.filtered, omissions |-> nested.omissions]

\* One iteration of filterAttributes' loop once the key's checks gave d:
\* whether key stays in the filtered map, with which value, and the
\* omissions the iteration appends.
decidedEntry(d, value, attrPath, cfg, terraformSensitive, ord) ==
  CASE d.action = "preserve" ->
         [keep |-> TRUE, value |-> value, omissions |-> <<>>]
    [] d.action = "omit" ->
         [keep |-> FALSE, value |-> JNull,
          omissions |-> <<OmittedField(attrPath, d.Reason, "attribute", d.FromPlatform)>>]
    [] OTHER ->
         CASE value.k = "obj" ->
                nestedEntry(filterAttributes(value, attrPath, cfg, terraformSensitive, ord))
           [] value.k = "arr" ->
                nestedEntry(filterArray(value, attrPath, cfg, terraformSensitive, ord))
           [] OTHER ->
                [keep |-> TRUE, value |-> value, omissions |-> <<>>]

filterEntry(key, value, basePath, cfg, terraformSensitive, ord) ==
  decidedEntry(attributeDecision(key, cfg, terraformSensitive), value,
               basePath \o <<".">> \o key, cfg, terraformSensitive, ord)

\* A faulty variant of collectEntries, for a loop that ends at the first
\* key it omits.
collectEntriesUntilOmitted(keys, entry) ==
  LET visited == {i \in 1..Len(keys) : \A h \in 1..(i - 1) : entry[keys[h]].keep}
  IN [filtered |-> JObj([key \in {keys[i] : i \in {j \in visited : entry[keys[j]].keep}}
                           |-> entry[key].value]),
      omissions |-> Flatten([i \in 1..Cardinality(visited) |-> entry[keys[i]].omissions])]

\* The filtered map and the omissions of a loop that visited keys in order.
collectEntries(keys, entry) ==
  [filtered |-> JObj([key \in {n \in DOMAIN entry : entry[n].keep} |-> entry[key].value]),
   omissions |-> Flatten([i \in 1..Len(keys) |-> entry[keys[i]].omissions])]

\* attrs is a map[string]interface{} (JObj) or a nil map (JNull).
filterAttributes(attrs, basePath, cfg, terraformSensitive, ord) ==
  IF attrs.k # "obj"
    THEN [filtered |-> JNull, omissions |-> <<>>]
    ELSE collectEntries(
           RangeKeys(attrs.o, ord),
           [key \in DOMAIN attrs.o |->
              filterEntry(key, attrs.o[key], basePath, cfg, terraformSensitive, ord)])

collectItems(item) ==
  [filtered |-> JArr([i \in 1..Len(item) |-> item[i].filtered]),
   omissions |-> Flatten([i \in 1..Len(item) |-> item[i].omissions])]

filterArray(arr, basePath, cfg, terraformSensitive, ord) ==
  collectItems(
    [i \in 1..Len(arr.a) |->
       IF arr.a[i].k = "obj"
         THEN filterAttributes(arr.a[i], basePath \o <<"[">> \o Itoa(i - 1) \o <<"]">>,
                               cfg, terraformSensitive, ord)
         ELSE [filtered |-> arr.a[i], omissions |-> <<>>]])

RECURSIVE countAttributes(_)
RECURSIVE SumSeq(_)
SumSeq(ns) == IF ns = <<>> THEN 0 ELSE Head(ns) + SumSeq(Tail(ns))

\* What one value adds to count beyond its own key.
countNested(v) ==
  CASE v.k = "obj" -> countAttributes(v)
    [] v.k = "arr" ->
         SumSeq([i \in 1..Len(v.a) |->
                   IF v.a[i].k = "obj" THEN countAttributes(v.a[i]) ELSE 0])
    [] OTHER -> 0

\* attrs is a map[string]interface{} (JObj) or a nil map (JNull).
countAttributes(attrs) ==
  IF attrs.k # "obj"
    THEN 0
    ELSE SumSeq([i \in 1..Cardinality(DOMAIN attrs.o) |->
                   1 + countNested(attrs.o[SetToSeq(DOMAIN attrs.o)[i]])])

(***************************************************************************)
(* filter.go: Filter, over a decoded TerraformState.  The model keeps the  *)
(* struct fields the filter reads or writes; the others pass through       *)
(* json.Unmarshal and json.Marshal unchanged.                              *)
(***************************************************************************)
EmptySummary(totalResources) ==
  [TotalResources |-> totalResources, OmittedResources |-> 0,
   TotalAttributes |-> 0, OmittedAttributes |-> 0]

\* result.Omissions = append(result.Omissions, o); result.Summary.OmittedResources++
AppendResource(res, o) ==
  [res EXCEPT !.Omissions = Append(@, o), !.Summary.OmittedResources = @ + 1]

\* result.Omissions = append(result.Omissions, o); result.Summary.OmittedAttributes++
AppendAttribute(res, o) ==
  [res EXCEPT !.Omissions = Append(@, o), !.Summary.OmittedAttributes = @ + 1]

\* result.Omissions = append(result.Omissions, omissions...)
\* result.Summary.OmittedAttributes += len(omissions)
AppendAttributes(res, omissions) ==
  [res EXCEPT !.Omissions = @ \o omissions,
              !.Summary.OmittedAttributes = @ + Len(omissions)]

formatResourcePath(r) ==
  IF r.Module # <<>>
    THEN r.Module \o <<".">> \o r.Type \o <<".">> \o r.Name
    ELSE r.Type \o <<".">> \o r.Name

\* fmt.Sprintf("resource type '%s' is in omit list", resourceType)
OmitListReason(resourceType) ==
  <<"resource type '">> \o resourceType \o <<"' is in omit list">>

StrType == <<"t","y","p","e">>
StrValue == <<"v","a","l","u","e">>
StrGetAttr == <<"g","e","t","_","a","t","t","r">>
StrSensitive == <<"s","e","n","s","i","t","i","v","e">>

\* The get_attr names of one path of sensitive_attributes.
pathGetAttrs(item) ==
  IF item.k # "arr"
    THEN {}
    ELSE {item.a[j].o[StrValue].s :
            j \in {j \in 1..Len(item.a) :
                     /\ item.a[j].k = "obj"
                     /\ StrType \in DOMAIN item.a[j].o
                     /\ item.a[j].o[StrType] = JStr(StrGetAttr)
                     /\ StrValue \in DOMAIN item.a[j].o
                     /\ item.a[j].o[StrValue].k = "str"}}

\* The set of names result[value] = true is set for.
parseSensitiveAttributes(sensitive) ==
  UNION {pathGetAttrs(sensitive[i]) : i \in 1..Len(sensitive)}

\* The resource-level checks of Filter's loop, in order.
stateResourceDecision(resource, cfg) ==
  IF cfg.OmitDataSources /\ resource.Mode = "data"
    THEN [omit |-> TRUE, Reason |-> <<"data source lookup omitted">>, FromPlatform |-> FALSE]
  ELSE IF ResourceTypeMatches(resource.Type, cfg.PlatformOmitResourceTypes)
    THEN [omit |-> TRUE, Reason |-> OmitListReason(resource.Type), FromPlatform |-> TRUE]
  ELSE IF ResourceTypeMatches(resource.Type, cfg.OmitResourceTypes)
    THEN [omit |-> TRUE, Reason |-> OmitListReason(resource.Type), FromPlatform |-> FALSE]
  ELSE [omit |-> FALSE, Reason |-> <<>>, FromPlatform |-> FALSE]

\* instancePath of the i-th (0-based) instance of resource.
instancePath(resource, i) ==
  IF resource.Instances[i + 1].IndexKey # JNull
    THEN formatResourcePath(resource) \o <<"[">>
           \o FormatValue(resource.Instances[i + 1].IndexKey) \o <<"]">>
  ELSE IF Len(resource.Instances) > 1
    THEN formatResourcePath(resource) \o <<"[">> \o Itoa(i) \o <<"]">>
  ELSE formatResourcePath(resource)

\* Lines 135-142, given what filterAttributes returned for the instance.
\* acc = [result, filteredInstances].
instanceStep(acc, instance, fa) ==
  [result |->
     [AppendAttributes(acc.result, fa.omissions) EXCEPT
        !.Summary.TotalAttributes = @ + countAttributes(instance.Attributes)],
   filteredInstances |->
     Append(acc.filteredInstances,
            [instance EXCEPT !.Attributes = fa.filtered, !.SensitiveAttributes = <<>>])]

\* The instance loop of Filter from its i-th (1-based) iteration on.
RECURSIVE filterInstances(_, _, _, _, _)
filterInstances(acc, resource, i, cfg, ord) ==
  IF i > Len(resource.Instances)
    THEN acc
    ELSE filterInstances(
           instanceStep(acc, resource.Instances[i],
                        filterAttributes(
                          resource.Instances[i].Attributes, instancePath(resource, i - 1), cfg,
                          parseSensitiveAttributes(resource.Instances[i].SensitiveAttributes),
                          ord)),
           resource, i + 1, cfg, ord)

\* Lines 145-146, given what the instance loop returned.
keepResource(acc, resource, inst) ==
  [result |-> inst.result,
   filteredResources |->
     Append(acc.filteredResources, [resource EXCEPT !.Instances = inst.filteredInstances])]

\* A faulty variant of resourceStep: the omission is recorded but the loop
\* does not continue with the next resource, so the omitted resource is
\* filtered and kept like any other.
resourceStepWithoutContinue(acc, resource, d, cfg, ord) ==
  keepResource(
    acc, resource,
    filterInstances(
      [result |-> IF d.omit
                    THEN AppendResource(acc.result,
                                        OmittedField(formatResourcePath(resource), d.Reason,
                                                     "resource", d.FromPlatform))
                    ELSE acc.result,
       filteredInstances |-> <<>>],
      resource, 1, cfg, ord))

\* One iteration of Filter's resource loop, the resource-level checks
\* having given d.  acc = [result, filteredResources].
resourceStep(acc, resource, d, cfg, ord) ==
  IF d.omit
    THEN [acc EXCEPT !.result =
            AppendResource(@, OmittedField(formatResourcePath(resource), d.Reason,
                                           "resource", d.FromPlatform))]
    ELSE keepResource(acc, resource,
                      filterInstances([result |-> acc.result, filteredInstances |-> <<>>],
                                      resource, 1, cfg, ord))

\* The resource loop of Filter from its i-th (1-based) iteration on.
RECURSIVE filterResources(_, _, _, _, _)
filterResources(acc, resources, i, cfg, ord) ==
  IF i > Len(resources)
    THEN acc
    ELSE filterResources(
           resourceStep(acc, resources[i], stateResourceDecision(resources[i], cfg), cfg, ord),
           resources, i + 1, cfg, ord)

\* A faulty variant of outputDecision: an output is also dropped when a key
\* of its value matches an omit-attribute pattern.
outputDecisionInspectingValue(name, output, cfg) ==
  LET patternMatch == AttributeMatchingPattern(name, cfg.OmitAttributes)
  IN IF patternMatch.found
       THEN [omit |-> TRUE, Reason |-> MatchesPatternReason(patternMatch.pattern)]
     ELSE IF /\ output.k = "obj"
             /\ \/ /\ StrSensitive \in DOMAIN output.o
                   /\ output.o[StrSensitive] = JBool(TRUE)
                \/ \E f \in DOMAIN output.o :
                     /\ output.o[f].k = "obj"
                     /\ \E key \in DOMAIN output.o[f].o :
                          AttributeContainsPattern(key, cfg.OmitAttributes)
       THEN [omit |-> TRUE, Reason |-> <<"output marked as sensitive">>]
     ELSE [omit |-> FALSE, Reason |-> <<>>]

\* Whether filterOutputs drops the output, and why.
outputDecision(name, output, cfg) ==
  LET patternMatch == AttributeMatchingPattern(name, cfg.OmitAttributes)
  IN IF patternMatch.found
       THEN [omit |-> TRUE, Reason |-> MatchesPatternReason(patternMatch.pattern)]
     ELSE IF /\ output.k = "obj"
             /\ StrSensitive \in DOMAIN output.o
             /\ output.o[StrSensitive] = JBool(TRUE)
       THEN [omit |-> TRUE, Reason |-> <<"output marked as sensitive">>]
     ELSE [omit |-> FALSE, Reason |-> <<>>]

\* A faulty variant of outputStep: the omission is recorded but the output
\* stays in the filtered map.
outputStepKeepsOmitted(acc, name, output, d) ==
  IF d.omit
    THEN [result |->
            AppendAttribute(acc.result,
                            OmittedField(<<"o","u","t","p","u","t","s",".">> \o name,
                                         d.Reason, "attribute", FALSE)),
          filtered |-> (name :> output) @@ acc.filtered]
    ELSE [acc EXCEPT !.filtered = (name :> output) @@ @]

\* One iteration of filterOutputs' loop.  acc = [result, filtered].
outputStep(acc, name, output, d) ==
  IF d.omit
    THEN [acc EXCEPT !.result =
            AppendAttribute(@, OmittedField(<<"o","u","t","p","u","t","s",".">> \o name,
                                            d.Reason, "attribute", FALSE))]
    ELSE [acc EXCEPT !.filtered = (name :> output) @@ @]

\* The loop of filterOutputs over names, from the i-th on.
RECURSIVE filterOutputsFrom(_, _, _, _, _)
filterOutputsFrom(acc, names, i, outputs, cfg) ==
  IF i > Len(names)
    THEN acc
    ELSE filterOutputsFrom(
           outputStep(acc, names[i], outputs[names[i]],
                      outputDecision(names[i], outputs[names[i]], cfg)),
           names, i + 1, outputs, cfg)

\* Returns [result, filtered]; filtered is a Go map.
filterOutputs(outputs, cfg, res, ord) ==
  filterOutputsFrom([result |-> res, filtered |-> <<>>],
                    RangeKeys(outputs, ord), 1, outputs, cfg)

\* Lines 149-163: the filtered document and the result, given the resource
\* loop's filteredResources and what filterOutputs returned.  FilteredJSON
\* is given as the document that the marshalled bytes decode to.
serializeState(state, filteredResources, outs) ==
  [FilteredJSON |->
     [state EXCEPT !.Resources = filteredResources,
                   !.Outputs = IF @.k = "obj" THEN JObj(outs.filtered) ELSE @],
   Omissions |-> outs.result.Omissions,
   Summary |-> outs.result.Summary]

\* Lines 149-154, given what the resource loop returned.
filterStateOutputs(state, cfg, ord, rs) ==
  serializeState(state, rs.filteredResources,
                 IF state.Outputs.k = "obj"
                   THEN filterOutputs(state.Outputs.o, cfg, rs.result, ord)
                   ELSE [result |-> rs.result, filtered |-> <<>>])

Filter(state, cfg, ord) ==
  filterStateOutputs(
    state, cfg, ord,
    filterResources([result |-> [Omissions |-> <<>>,
                                 Summary |-> EmptySummary(Len(state.Resources))],
                     filteredResources |-> <<>>],
                    state.Resources, 1, cfg, ord))

(***************************************************************************)
(* filter.go: FilterPlan, over a decoded TerraformPlan.  A nil pointer to  *)
(* a Change, PlannedValues, PlannedModule or TerraformState is JNull.      *)
(***************************************************************************)
\* The names extractSensitive sets result[key] = true for.
extractSensitive(v) ==
  IF v.k = "obj" THEN {key \in DOMAIN v.o : v.o[key] = JBool(TRUE)} ELSE {}

\* A faulty variant of parseSensitiveFromPlan: after_sensitive is not read.
parseSensitiveFromPlanBeforeOnly(beforeSensitive, afterSensitive) ==
  extractSensitive(beforeSensitive)

parseSensitiveFromPlan(beforeSensitive, afterSensitive) ==
  extractSensitive(beforeSensitive) \cup extractSensitive(afterSensitive)

\* The resource-level checks of FilterPlan's loop over resource_changes.
changeDecision(rc, cfg) ==
  IF cfg.OmitDataSources /\ rc.Mode = "data"
    THEN [omit |-> TRUE, Reason |-> <<"data source lookup omitted">>, FromPlatform |-> FALSE]
  ELSE IF ResourceTypeMatches(rc.Type, cfg.PlatformOmitResourceTypes)
    THEN [omit |-> TRUE, Reason |-> OmitListReason(rc.Type), FromPlatform |-> TRUE]
  ELSE IF ResourceTypeMatches(rc.Type, cfg.OmitResourceTypes)
    THEN [omit |-> TRUE, Reason |-> OmitListReason(rc.Type), FromPlatform |-> FALSE]
  ELSE [omit |-> FALSE, Reason |-> <<>>, FromPlatform |-> FALSE]

\* Lines 479-482 (side "Before") and 487-490 (side "After"), given what
\* filterAttributes returned: the tree is replaced, the omissions are
\* appended, and the tree now in place is counted.  acc = [result, change].
changeTree(acc, side, fa) ==
  [result |->
     [AppendAttributes(acc.result, fa.omissions) EXCEPT
        !.Summary.TotalAttributes = @ + countAttributes(fa.filtered)],
   change |-> [acc.change EXCEPT ![side] = fa.filtered]]

filterBefore(acc, address, cfg, sensitiveAttrs, ord) ==
  IF acc.change.Before.k = "obj"
    THEN changeTree(acc, "Before",
                    filterAttributes(acc.change.Before,
                                     address \o <<".","b","e","f","o","r","e">>,
                                     cfg, sensitiveAttrs, ord))
    ELSE acc

filterAfter(acc, address, cfg, sensitiveAttrs, ord) ==
  IF acc.change.After.k = "obj"
    THEN changeTree(acc, "After",
                    filterAttributes(acc.change.After,
                                     address \o <<".","a","f","t","e","r">>,
                                     cfg, sensitiveAttrs, ord))
    ELSE acc

clearMarkers(acc) ==
  [acc EXCEPT !.change.BeforeSensitive = JNull, !.change.AfterSensitive = JNull]

\* Lines 474-496: a surviving change's before and after trees.
\* Returns [result, change].
filterChange(res, rc, cfg, ord) ==
  IF rc.Change = JNull
    THEN [result |-> res, change |-> rc.Change]
    ELSE clearMarkers(
           filterAfter(
             filterBefore([result |-> res, change |-> rc.Change], rc.Address, cfg,
                          parseSensitiveFromPlan(rc.Change.BeforeSensitive,
                                                 rc.Change.AfterSensitive), ord),
             rc.Address, cfg,
             parseSensitiveFromPlan(rc.Change.BeforeSensitive, rc.Change.AfterSensitive),
             ord))

\* Line 498, given what filterChange returned.
keepChange(acc, rc, fc) ==
  [result |-> fc.result,
   filteredChanges |-> Append(acc.filteredChanges, [rc EXCEPT !.Change = fc.change])]

\* One iteration of the loop over plan.ResourceChanges, the resource-level
\* checks having given d.  acc = [result, filteredChanges].
changeStep(acc, rc, d, cfg, ord) ==
  IF d.omit
    THEN [acc EXCEPT !.result =
            AppendResource(@, OmittedField(rc.Address, d.Reason, "resource", d.FromPlatform))]
    ELSE keepChange(acc, rc, filterChange(acc.result, rc, cfg, ord))

RECURSIVE filterChanges(_, _, _, _, _)
filterChanges(acc, changes, i, cfg, ord) ==
  IF i > Len(changes)
    THEN acc
    ELSE filterChanges(changeStep(acc, changes[i], changeDecision(changes[i], cfg), cfg, ord),
                       changes, i + 1, cfg, ord)

\* A faulty variant of plannedResourceDecision: the omit-type lists are
\* consulted before the data-source check.
plannedResourceDecisionTypesFirst(pr, cfg) ==
  IF ResourceTypeMatches(pr.Type, cfg.PlatformOmitResourceTypes)
    THEN [omit |-> TRUE, Reason |-> OmitListReason(pr.Type), FromPlatform |-> TRUE]
  ELSE IF ResourceTypeMatches(pr.Type, cfg.OmitResourceTypes)
    THEN [omit |-> TRUE, Reason |-> OmitListReason(pr.Type), FromPlatform |-> FALSE]
  ELSE IF cfg.OmitDataSources /\ pr.Mode = "data"
    THEN [omit |-> TRUE, Reason |-> <<"data source lookup omitted">>, FromPlatform |-> FALSE]
  ELSE [omit |-> FALSE, Reason |-> <<>>, FromPlatform |-> FALSE]

\* The resource-level checks of filterPlannedModule's loop.
plannedResourceDecision(pr, cfg) ==
  IF cfg.OmitDataSources /\ pr.Mode = "data"
    THEN [omit |-> TRUE, Reason |-> <<"data source lookup omitted">>, FromPlatform |-> FALSE]
  ELSE IF ResourceTypeMatches(pr.Type, cfg.PlatformOmitResourceTypes)
    THEN [omit |-> TRUE, Reason |-> OmitListReason(pr.Type), FromPlatform |-> TRUE]
  ELSE IF ResourceTypeMatches(pr.Type, cfg.OmitResourceTypes)
    THEN [omit |-> TRUE, Reason |-> OmitListReason(pr.Type), FromPlatform |-> FALSE]
  ELSE [omit |-> FALSE, Reason |-> <<>>, FromPlatform |-> FALSE]

\* Lines 632-637, given what filterAttributes returned.
keepPlannedResource(acc, pr, fa) ==
  [result |-> AppendAttributes(acc.result, fa.omissions),
   filteredResources |->
     Append(acc.filteredResources,
            [pr EXCEPT !.Values = fa.filtered, !.SensitiveValues = JNull])]

\* One iteration of filterPlannedModule's resource loop.
\* acc = [result, filteredResources].
plannedResourceStep(acc, pr, d, cfg, ord) ==
  IF d.omit
    THEN [acc EXCEPT !.result =
            AppendResource(@, OmittedField(pr.Address, d.Reason, "resource", d.FromPlatform))]
    ELSE keepPlannedResource(
           acc, pr,
           filterAttributes(pr.Values, pr.Address, cfg,
                            parseSensitiveFromPlan(pr.SensitiveValues, JNull), ord))

RECURSIVE filterPlannedResources(_, _, _, _, _)
filterPlannedResources(acc, resources, i, cfg, ord) ==
  IF i > Len(resources)
    THEN acc
    ELSE filterPlannedResources(
           plannedResourceStep(acc, resources[i], plannedResourceDecision(resources[i], cfg),
                               cfg, ord),
           resources, i + 1, cfg, ord)

RECURSIVE filterPlannedModule(_, _, _, _)
RECURSIVE filterChildModules(_, _, _, _, _)

\* The module once its resources and its child modules are filtered.
plannedModuleDone(pm, filteredResources, kids) ==
  [result |-> kids.result,
   module |-> [pm EXCEPT !.Resources = filteredResources, !.ChildModules = kids.modules]]

\* Lines 639-643, given what the module's resource loop returned.
plannedModuleChildren(pm, cfg, ord, own) ==
  plannedModuleDone(pm, own.filteredResources,
                    filterChildModules([result |-> own.result, modules |-> <<>>],
                                       pm.ChildModules, 1, cfg, ord))

\* The module's own resources, then each child module in order.
\* Returns [result, module].
filterPlannedModule(pm, cfg, res, ord) ==
  plannedModuleChildren(pm, cfg, ord,
                        filterPlannedResources([result |-> res, filteredResources |-> <<>>],
                                               pm.Resources, 1, cfg, ord))

childModuleStep(acc, fm) ==
  [result |-> fm.result, modules |-> Append(acc.modules, fm.module)]

filterChildModules(acc, children, i, cfg, ord) ==
  IF i > Len(children)
    THEN acc
    ELSE filterChildModules(
           childModuleStep(acc, filterPlannedModule(children[i], cfg, acc.result, ord)),
           children, i + 1, cfg, ord)

\* Whether filterPlannedValues deletes the planned output, and why.
plannedOutputDecision(name, cfg) ==
  LET platformMatch == AttributeMatchingPattern(name, cfg.PlatformOmitAttributes)
      patternMatch == AttributeMatchingPattern(name, cfg.OmitAttributes)
  IN IF platformMatch.found
       THEN [omit |-> TRUE, Reason |-> MatchesPatternReason(platformMatch.pattern),
             FromPlatform |-> TRUE]
     ELSE IF patternMatch.found
       THEN [omit |-> TRUE, Reason |-> MatchesPatternReason(patternMatch.pattern),
             FromPlatform |-> FALSE]
     ELSE [omit |-> FALSE, Reason |-> <<>>, FromPlatform |-> FALSE]

\* One iteration of the loop over pv.Outputs.  acc = [result, outputs];
\* outputs is the map that names are deleted from.
plannedOutputStep(acc, name, d) ==
  IF d.omit
    THEN [result |->
            AppendAttribute(acc.result,
              OmittedField(<<"p","l","a","n","n","e","d","_","v","a","l","u","e","s",
                             ".","o","u","t","p","u","t","s",".">> \o name,
                           d.Reason, "attribute", d.FromPlatform)),
          outputs |-> [n \in DOMAIN acc.outputs \ {name} |-> acc.outputs[n]]]
    ELSE acc

RECURSIVE filterPlannedOutputsFrom(_, _, _, _)
filterPlannedOutputsFrom(acc, names, i, cfg) ==
  IF i > Len(names)
    THEN acc
    ELSE filterPlannedOutputsFrom(
           plannedOutputStep(acc, names[i], plannedOutputDecision(names[i], cfg)),
           names, i + 1, cfg)

plannedValuesDone(pv, module, outs) ==
  [result |-> outs.result,
   pv |-> [pv EXCEPT !.RootModule = module,
                     !.Outputs = IF @.k = "obj" THEN JObj(outs.outputs) ELSE @]]

\* Lines 566-590, given what the root module's filtering returned.
filterPlannedOutputs(pv, cfg, ord, root) ==
  plannedValuesDone(
    pv, root.module,
    IF pv.Outputs.k = "obj"
      THEN filterPlannedOutputsFrom([result |-> root.result, outputs |-> pv.Outputs.o],
                                    RangeKeys(pv.Outputs.o, ord), 1, cfg)
      ELSE [result |-> root.result, outputs |-> <<>>])

\* Returns [result, pv].
filterPlannedValues(pv, cfg, res, ord) ==
  filterPlannedOutputs(
    pv, cfg, ord,
    IF pv.RootModule # JNull
      THEN filterPlannedModule(pv.RootModule, cfg, res, ord)
      ELSE [result |-> res, module |-> pv.RootModule])

\* One iteration of filterVariables' loop.  acc = [result, filtered].
variableStep(acc, name, value, patternMatch) ==
  IF patternMatch.found
    THEN [acc EXCEPT !.result =
            AppendAttribute(@,
              OmittedField(<<"v","a","r","i","a","b","l","e","s",".">> \o name,
                           MatchesPatternReason(patternMatch.pattern), "attribute", FALSE))]
    ELSE [acc EXCEPT !.filtered = (name :> value) @@ @]

RECURSIVE filterVariablesFrom(_, _, _, _, _)
filterVariablesFrom(acc, names, i, variables, cfg) ==
  IF i > Len(names)
    THEN acc
    ELSE filterVariablesFrom(
           variableStep(acc, names[i], variables[names[i]],
                        AttributeMatchingPattern(names[i], cfg.OmitAttributes)),
           names, i + 1, variables, cfg)

\* Returns [result, filtered]; filtered is a Go map.
filterVariables(variables, cfg, res, ord) ==
  filterVariablesFrom([result |-> res, filtered |-> <<>>],
                      RangeKeys(variables, ord), 1, variables, cfg)

\* A faulty variant of mergePriorState: the prior state's records are
\* appended but its counters are not added.
mergePriorStateRecordsOnly(res, stateResult) ==
  [result |-> [res EXCEPT !.Omissions = @ \o stateResult.Omissions],
   state |-> stateResult.FilteredJSON]

\* Lines 512-518: the prior state's omissions and omitted counters are
\* added to the plan's result.
mergePriorState(res, stateResult) ==
  [result |->
     [res EXCEPT
        !.Omissions = @ \o stateResult.Omissions,
        !.Summary.OmittedResources = @ + stateResult.Summary.OmittedResources,
        !.Summary.OmittedAttributes = @ + stateResult.Summary.OmittedAttributes],
   state |-> stateResult.FilteredJSON]

\* Lines 507-520.  Returns [result, state].
filterPriorState(priorState, cfg, res, ord) ==
  IF priorState = JNull
    THEN [result |-> res, state |-> priorState]
    ELSE mergePriorState(res, Filter(priorState, cfg, ord))

\* Lines 527-534.
serializePlan(plan, vs) ==
  [FilteredJSON |->
     [plan EXCEPT !.Variables = IF @.k = "obj" THEN JObj(vs.filtered) ELSE @],
   Omissions |-> vs.result.Omissions,
   Summary |-> vs.result.Summary]

\* Lines 522-525, given what the prior state's filtering returned.
filterPlanVariables(plan, cfg, ord, prior) ==
  serializePlan([plan EXCEPT !.PriorState = prior.state],
                IF plan.Variables.k = "obj"
                  THEN filterVariables(plan.Variables.o, cfg, prior.result, ord)
                  ELSE [result |-> prior.result, filtered |-> <<>>])

\* Lines 507-520, given what filterPlannedValues returned.
filterPlanPriorState(plan, cfg, ord, pvs) ==
  filterPlanVariables([plan EXCEPT !.PlannedValues = pvs.pv], cfg, ord,
                      filterPriorState(plan.PriorState, cfg, pvs.result, ord))

\* Lines 500-505, given what the loop over resource_changes returned.
filterPlanPlannedValues(plan, cfg, ord, rcs) ==
  filterPlanPriorState(
    [plan EXCEPT !.ResourceChanges = rcs.filteredChanges], cfg, ord,
    IF plan.PlannedValues # JNull
      THEN filterPlannedValues(plan.PlannedValues, cfg, rcs.result, ord)
      ELSE [result |-> rcs.result, pv |-> plan.PlannedValues])

FilterPlan(plan, cfg, ord) ==
  filterPlanPlannedValues(
    plan, cfg, ord,
    filterChanges([result |-> [Omissions |-> <<>>,
                               Summary |-> EmptySummary(Len(plan.ResourceChanges))],
                   filteredChanges |-> <<>>],
                  plan.ResourceChanges, 1, cfg, ord))

(***************************************************************************)
(* Specification SpecMatch: AttributeMatchingPattern applied to every      *)
(* name and pattern list over a small alphabet with both letter cases.     *)
(***************************************************************************)
MatchChars == {"a", "A", "b"}

\* No report is printed, no workflow edited, no environment inspected and
\* no discovery call made in this specification.
NoTool == [used |-> FALSE]

ToolsIdle ==
  /\ report = NoTool
  /\ workflow = NoTool
  /\ environ = NoTool
  /\ cache = NoTool
  /\ calls = NoTool

\* No command is run in this specification.
NoCommand == [command |-> "none"]
NoServer == [discovery |-> "none"]
NoRun == [pc |-> "idle"]

NotCalled == [pattern |-> <<>>, found |-> FALSE, called |-> FALSE]

InitMatch ==
  /\ attrName \in SeqsUpTo(MatchChars, MaxNameLen)
  /\ patterns \in SeqsUpTo(SeqsUpTo(MatchChars, MaxPatternLen), MaxPatterns)
  /\ matched = NotCalled
  /\ ToolsIdle
  /\ invocation = NoCommand
  /\ server = NoServer
  /\ proc = NoRun
  /\ requests = <<>>
  /\ document = [kind |-> "none"]
  /\ projectConfig = NoConfigFile
  /\ fragment = JNull
  /\ result = [called |-> FALSE]
  /\ refiltered = [called |-> FALSE]

Match ==
  /\ ~matched.called
  /\ matched' = [pattern |-> AttributeMatchingPattern(attrName, patterns).pattern,
                 found |-> AttributeMatchingPattern(attrName, patterns).found,
                 called |-> TRUE]
  /\ UNCHANGED <<attrName, patterns, filterVars, cmdVars, toolVars>>

NextMatch == Match

SpecMatch == InitMatch /\ [][NextMatch]_vars

(***************************************************************************)
(* C4                                                                      *)
(***************************************************************************)
\* p is a case-insensitive substring of a: some window of a equals p once
\* both are folded to one letter case.
IsCISubstring(p, a) ==
  /\ Len(p) <= Len(a)
  /\ \E i \in 0..(Len(a) - Len(p)) :
       toLowerCase(SubSeq(a, i + 1, i + Len(p))) = toLowerCase(p)

CIHits == {i \in 1..Len(patterns) : IsCISubstring(patterns[i], attrName)}

\* C4: AttributeMatchingPattern(A, P) returns found = TRUE iff some pattern
\* of P, in any letter case, is a case-insensitive substring of A, and then
\* returns the first such pattern in list order.
C4_MatchIsCaseInsensitive ==
  matched.called =>
    /\ matched.found <=> (CIHits # {})
    /\ matched.found =>
         matched.pattern = patterns[CHOOSE i \in CIHits : \A j \in CIHits : i <= j]

(***************************************************************************)
(* The documents and policies the filter is run on.                        *)
(***************************************************************************)
MaxDepth == 3
MaxArrayLen == 1
MaxResources == 2

NPassword == <<"p","a","s","s","w","o","r","d">>
NId == <<"i","d">>
NIp == <<"i","p">>
TDb == <<"a","w","s","_","d","b","_","i","n","s","t","a","n","c","e">>
TRandom == <<"r","a","n","d","o","m","_","p","a","s","s","w","o","r","d">>

\* The two visiting orders of map keys the runs take: every pair of keys
\* is visited in both orders.
KeyOrders == {<<NPassword, NId, NIp>>, <<NIp, NId, NPassword>>}

\* .cora.yaml contents, besides no file at all.
ProjectConfigs ==
  { NoConfigFile,
    [present |-> TRUE, OmitResourceTypes |-> <<TDb>>, OmitAttributes |-> <<NIp>>,
     PreserveAttributes |-> <<>>,
     HonorTerraformSensitive |-> "unset", OmitDataSources |-> "unset"],
    [present |-> TRUE, OmitResourceTypes |-> <<>>, OmitAttributes |-> <<NIp>>,
     PreserveAttributes |-> <<<<"I","P">>, NId>>,
     HonorTerraformSensitive |-> "true", OmitDataSources |-> "false"],
    [present |-> TRUE, OmitResourceTypes |-> <<>>, OmitAttributes |-> <<NIp>>,
     PreserveAttributes |-> <<>>,
     HonorTerraformSensitive |-> "false", OmitDataSources |-> "unset"] }

\* The sensitiveFiltering section of the discovery document, as far as the
\* merge reads it.
PlatformFragments ==
  { [Available |-> FALSE, AdditionalOmitTypes |-> <<>>, AdditionalOmitAttributes |-> <<>>],
    [Available |-> TRUE, AdditionalOmitTypes |-> <<TDb>>, AdditionalOmitAttributes |-> <<NIp>>],
    [Available |-> TRUE, AdditionalOmitTypes |-> <<TRandom>>,
     AdditionalOmitAttributes |-> <<<<"p","a","s","s">>>>] }

\* The policy upload and review filter with, given a loaded config file and
\* a discovery document.
EffectivePolicy(cfg, f) ==
  LET merged == GetMergedConfig(FALSE, cfg).merged
  IN IF f.Available
       THEN MergeWithPlatformSettings(merged, f.AdditionalOmitTypes,
                                      f.AdditionalOmitAttributes)
       ELSE merged

\* The *MergedConfig that Filter and FilterPlan are given.
config == EffectivePolicy(projectConfig, fragment)

Scalar == JStr(<<"x">>)

\* Arrays of up to MaxArrayLen elements, one of them from S, the others scalars.
ArraysOver(S) ==
  UNION {{JArr([i \in 1..len |-> IF i = len THEN v ELSE Scalar]) : v \in S} :
           len \in 1..MaxArrayLen}

\* The values nested at most d deep.
RECURSIVE TreeValues(_)
TreeValues(d) ==
  IF d = 0
    THEN {Scalar}
    ELSE LET S == TreeValues(d - 1)
         IN S \cup {JObj(key :> v) : key \in {NPassword, NId}, v \in S} \cup ArraysOver(S)

DeepAttrs == {JObj(key :> v) : key \in {NPassword, NId, NIp}, v \in TreeValues(MaxDepth)}

FlatAttrs == JObj(NPassword :> Scalar @@ NId :> Scalar)

Instance(indexKey, attrs, sensitive) ==
  [IndexKey |-> indexKey, Attributes |-> attrs, SensitiveAttributes |-> sensitive]

Resource(mode, type, name, instances) ==
  [Module |-> <<>>, Mode |-> mode, Type |-> type, Name |-> name, Instances |-> instances]

State(outputs, resources) == [Version |-> 4, Outputs |-> outputs, Resources |-> resources]

\* sensitive_attributes as Terraform writes them, and a path that is no get_attr.
SensitiveMarkers ==
  { <<JArr(<<JObj(StrType :> JStr(StrGetAttr) @@ StrValue :> JStr(NId))>>)>>,
    <<JArr(<<JObj(StrType :> JStr(<<"i","n","d","e","x">>) @@ StrValue :> JStr(NId))>>)>> }

OutputChoices ==
  { JNull,
    JObj(NPassword :> JObj(StrValue :> Scalar)
         @@ NId :> JObj(StrValue :> Scalar @@ StrSensitive :> JBool(TRUE))),
    JObj(NIp :> JObj(StrValue :> Scalar) @@ NId :> JObj(StrValue :> Scalar)),
    JObj(NPassword :> JObj(StrValue :> Scalar)
         @@ NIp :> JObj(StrValue :> Scalar @@ StrSensitive :> JBool(TRUE))
         @@ NId :> JObj(StrValue :> JObj(NPassword :> Scalar) @@ StrSensitive :> JBool(FALSE))) }

ResourceChoices ==
  {Resource(mode, type, <<"a">>, instances) :
     mode \in {"managed", "data"}, type \in {TDb, TRandom},
     instances \in { <<Instance(JNull, FlatAttrs, <<>>)>>,
                     <<Instance(JNum(0), FlatAttrs, <<>>), Instance(JNum(1), FlatAttrs, <<>>)>> }}

DeepStates ==
  {State(JNull, <<Resource("managed", TDb, <<"a">>, <<Instance(JNull, attrs, <<>>)>>)>>) :
     attrs \in DeepAttrs}

MarkedStates ==
  {State(JNull, <<Resource("managed", TDb, <<"a">>, <<Instance(JNull, attrs, sensitive)>>)>>) :
     attrs \in {FlatAttrs, JObj(NIp :> JObj(NId :> Scalar))}, sensitive \in SensitiveMarkers}

\* Terraform gives no two resources of a document the same mode, type and
\* name in one module.
DistinctResources(rs) ==
  \A i, j \in 1..Len(rs) :
    i < j => <<rs[i].Mode, rs[i].Type, rs[i].Name>> # <<rs[j].Mode, rs[j].Type, rs[j].Name>>

WideStates ==
  {State(outputs, resources) :
     outputs \in OutputChoices,
     resources \in {rs \in SeqsUpTo(ResourceChoices, MaxResources) : DistinctResources(rs)}}

StateDocuments == DeepStates \cup MarkedStates \cup WideStates

\* Terraform's address of a resource in a plan.
AddressOf(mode, type, name) ==
  IF mode = "data"
    THEN <<"d","a","t","a",".">> \o type \o <<".">> \o name
    ELSE type \o <<".">> \o name

Change(before, after, beforeSensitive, afterSensitive) ==
  [Before |-> before, After |-> after,
   BeforeSensitive |-> beforeSensitive, AfterSensitive |-> afterSensitive]

ResourceChange(mode, type, name, change) ==
  [Address |-> AddressOf(mode, type, name), Mode |-> mode, Type |-> type, Name |-> name,
   Change |-> change]

PlannedResource(mode, type, name, values, sensitiveValues) ==
  [Address |-> AddressOf(mode, type, name), Mode |-> mode, Type |-> type, Name |-> name,
   Values |-> values, SensitiveValues |-> sensitiveValues]

PlannedModule(resources, children) ==
  [Resources |-> resources, ChildModules |-> children]

PlannedValues(outputs, root) == [Outputs |-> outputs, RootModule |-> root]

Plan(variables, planned, changes, prior) ==
  [Variables |-> variables, PlannedValues |-> planned, ResourceChanges |-> changes,
   PriorState |-> prior]

ChangeChoices ==
  {ResourceChange(mode, type, <<"a">>, change) :
     mode \in {"managed", "data"}, type \in {TDb, TRandom},
     change \in { JNull,
                  Change(FlatAttrs, FlatAttrs, JNull, JNull),
                  Change(JNull, FlatAttrs, JObj(NId :> JBool(TRUE)), JObj(NId :> JBool(FALSE))) }}

PlannedChoices ==
  { JNull,
    PlannedValues(JObj(NPassword :> JObj(StrValue :> Scalar) @@ NId :> JObj(StrValue :> Scalar)),
                  JNull),
    PlannedValues(JObj(NIp :> JObj(StrValue :> Scalar)),
                  PlannedModule(
                    <<PlannedResource("managed", TRandom, <<"a">>, FlatAttrs, JNull),
                      PlannedResource("managed", TDb, <<"a">>, FlatAttrs, JObj(NId :> JBool(TRUE)))>>,
                    <<PlannedModule(<<PlannedResource("data", TDb, <<"a">>, FlatAttrs, JNull)>>,
                                    <<>>)>>)) }

PriorChoices ==
  { JNull,
    State(JObj(NPassword :> JObj(StrValue :> Scalar)),
          << Resource("managed", TRandom, <<"a">>, <<Instance(JNull, FlatAttrs, <<>>)>>),
             Resource("managed", TDb, <<"a">>, <<Instance(JNull, FlatAttrs, <<>>)>>) >>) }

VariableChoices ==
  { JNull, JObj(NPassword :> JObj(StrValue :> Scalar) @@ NId :> JObj(StrValue :> Scalar)) }

DeepPlans ==
  {Plan(JNull, JNull,
        <<ResourceChange("managed", TDb, <<"a">>, Change(attrs, JNull, JNull, JNull))>>, JNull) :
     attrs \in DeepAttrs}
  \cup
  {Plan(JNull,
        PlannedValues(JNull, PlannedModule(
          <<PlannedResource("managed", TDb, <<"a">>, attrs, JNull)>>, <<>>)),
        <<>>, JNull) :
     attrs \in DeepAttrs}

WidePlans ==
  {Plan(JNull, JNull, changes, JNull) :
     changes \in {rs \in SeqsUpTo(ChangeChoices, MaxResources) : DistinctResources(rs)}}

SectionPlans ==
  {Plan(variables, planned, changes, prior) :
     variables \in VariableChoices, planned \in PlannedChoices, prior \in PriorChoices,
     changes \in { <<>>,
                   <<ResourceChange("managed", TRandom, <<"a">>,
                                    Change(FlatAttrs, FlatAttrs, JNull, JNull))>>,
                   <<ResourceChange("managed", TDb, <<"a">>,
                                    Change(FlatAttrs, FlatAttrs, JNull, JNull))>>,
                   <<ResourceChange("managed", TDb, <<"a">>,
                                    Change(FlatAttrs, FlatAttrs, JNull,
                                           JObj(NId :> JBool(TRUE))))>> }}

PlanDocuments == DeepPlans \cup WidePlans \cup SectionPlans

(***************************************************************************)
(* Specification SpecFilter: one call of Filter or FilterPlan on a         *)
(* document under a policy, and one more call on the filtered document     *)
(* the first call returned.                                                *)
(***************************************************************************)
NotFiltered == [called |-> FALSE]

Called(r) == [called |-> TRUE, FilteredJSON |-> r.FilteredJSON,
              Omissions |-> r.Omissions, Summary |-> r.Summary]

InitFilter ==
  /\ document \in [kind : {"state"}, doc : StateDocuments]
                    \cup [kind : {"plan"}, doc : PlanDocuments]
  /\ projectConfig \in ProjectConfigs
  /\ fragment \in PlatformFragments
  /\ result = NotFiltered
  /\ refiltered = NotFiltered
  /\ attrName = <<>>
  /\ patterns = <<>>
  /\ matched = NotCalled
  /\ ToolsIdle
  /\ invocation = NoCommand
  /\ server = NoServer
  /\ proc = NoRun
  /\ requests = <<>>

DoFilter ==
  /\ document.kind = "state"
  /\ ~result.called
  /\ \E ord \in KeyOrders : result' = Called(Filter(document.doc, config, ord))
  /\ UNCHANGED <<document, projectConfig, fragment, refiltered, matchVars, cmdVars, toolVars>>

DoFilterPlan ==
  /\ document.kind = "plan"
  /\ ~result.called
  /\ \E ord \in KeyOrders : result' = Called(FilterPlan(document.doc, config, ord))
  /\ UNCHANGED <<document, projectConfig, fragment, refiltered, matchVars, cmdVars, toolVars>>

DoFilterAgain ==
  /\ document.kind = "state"
  /\ result.called
  /\ ~refiltered.called
  /\ \E ord \in KeyOrders : refiltered' = Called(Filter(result.FilteredJSON, config, ord))
  /\ UNCHANGED <<document, projectConfig, fragment, result, matchVars, cmdVars, toolVars>>

DoFilterPlanAgain ==
  /\ document.kind = "plan"
  /\ result.called
  /\ ~refiltered.called
  /\ \E ord \in KeyOrders : refiltered' = Called(FilterPlan(result.FilteredJSON, config, ord))
  /\ UNCHANGED <<document, projectConfig, fragment, result, matchVars, cmdVars, toolVars>>

NextFilter == DoFilter \/ DoFilterPlan \/ DoFilterAgain \/ DoFilterPlanAgain

SpecFilter == InitFilter /\ [][NextFilter]_vars

(***************************************************************************)
(* Specification SpecAttributes: one call of filterAttributes on an       *)
(* attribute tree, under a policy and a set of provider-flagged names.     *)
(***************************************************************************)
AttributeTrees ==
  DeepAttrs \cup
  { FlatAttrs,
    JObj(NIp :> Scalar @@ NId :> Scalar),
    JObj(NIp :> JObj(NPassword :> Scalar @@ NId :> Scalar)),
    JObj(NId :> JArr(<<JObj(NPassword :> Scalar @@ NIp :> Scalar)>>)) }

TreeBasePath == <<"r">>

InitAttributes ==
  /\ document \in [kind : {"attributes"}, doc : AttributeTrees, sensitive : {{}, {NId}}]
  /\ projectConfig \in ProjectConfigs
  /\ fragment \in PlatformFragments
  /\ result = NotFiltered
  /\ refiltered = NotFiltered
  /\ attrName = <<>>
  /\ patterns = <<>>
  /\ matched = NotCalled
  /\ ToolsIdle
  /\ invocation = NoCommand
  /\ server = NoServer
  /\ proc = NoRun
  /\ requests = <<>>

TreeResult(fa) ==
  [called |-> TRUE, FilteredJSON |-> fa.filtered, Omissions |-> fa.omissions]

DoFilterAttributes ==
  /\ document.kind = "attributes"
  /\ ~result.called
  /\ \E ord \in KeyOrders :
       result' = TreeResult(filterAttributes(document.doc, TreeBasePath, config,
                                             document.sensitive, ord))
  /\ UNCHANGED <<document, projectConfig, fragment, refiltered, matchVars, cmdVars, toolVars>>

NextAttributes == DoFilterAttributes

SpecAttributes == InitAttributes /\ [][NextAttributes]_vars

(***************************************************************************)
(* cmd: runUpload and runReview, each from its first statement to its      *)
(* return, in the steps its comments divide it into.                       *)
(***************************************************************************)
\* var defaultDiscovery, as far as the commands read it.
defaultDiscovery ==
  [Endpoints |-> [StateUpload |-> "/api/terraform-state", PlanUpload |-> "/api/plans/upload"],
   Features |->
     [PRRiskAssessment |-> TRUE,
      SensitiveFiltering |->
        [Available |-> TRUE, Enforced |-> FALSE,
         AdditionalOmitTypes |-> <<>>, AdditionalOmitAttributes |-> <<>>]]]

\* What FetchServiceDiscovery returns on a first call of the process: nil
\* when the request cannot be built, the defaults when the request fails,
\* the answer is not 200 or the body does not decode, and else the
\* document served, whose sensitiveFiltering section is f.
FetchServiceDiscovery(srv, f) ==
  CASE srv.discovery = "unbuildable" -> JNull
    [] srv.discovery = "default" -> defaultDiscovery
    [] OTHER ->
         [Endpoints |-> [StateUpload |-> "", PlanUpload |-> ""],
          Features |-> [PRRiskAssessment |-> srv.PRRiskAssessment, SensitiveFiltering |-> f]]

\* The config both commands continue with when GetMergedConfig fails.
fallbackConfig ==
  [OmitResourceTypes |-> DefaultOmitResourceTypes,
   OmitAttributes |-> DefaultOmitAttributes,
   PreserveAttributes |-> <<>>,
   HonorTerraformSensitive |-> TRUE,
   OmitDataSources |-> FALSE,
   PlatformOmitResourceTypes |-> <<>>,
   PlatformOmitAttributes |-> <<>>]

\* filterConfig after "Load filter configuration" and "Merge with platform
\* settings if available".
resolvedConfig(loaded, discovery) ==
  IF discovery # JNull /\ discovery.Features.SensitiveFiltering.Available
    THEN MergeWithPlatformSettings(
           IF loaded.err THEN fallbackConfig ELSE loaded.merged,
           discovery.Features.SensitiveFiltering.AdditionalOmitTypes,
           discovery.Features.SensitiveFiltering.AdditionalOmitAttributes)
    ELSE IF loaded.err THEN fallbackConfig ELSE loaded.merged

\* The command returned err, or returned nil when err is "".
Returned(p, err) == [p EXCEPT !.pc = "done", !.err = err]

Running(command, pc) == invocation.command = command /\ proc.pc = pc

\* runUpload, lines 227-251: workspace, token, service discovery.
UploadBegin ==
  /\ Running("upload", "start")
  /\ proc' =
       IF ~invocation.workspace THEN Returned(proc, "workspace is required")
       ELSE IF ~invocation.token THEN Returned(proc, "not authenticated")
       ELSE [proc EXCEPT !.pc = "read", !.discovery = FetchServiceDiscovery(server, fragment)]
  /\ UNCHANGED <<invocation, server, requests, filterVars, matchVars, toolVars>>

\* A faulty variant of UploadRead: the input is parsed but not checked for
\* the resources field.
UploadReadWithoutResourcesCheck ==
  /\ Running("upload", "read")
  /\ proc' =
       CASE document.kind = "unreadable" -> Returned(proc, "failed to read state file")
         [] document.kind = "empty" -> Returned(proc, "empty state data provided")
         [] document.kind = "notjson" -> Returned(proc, "invalid JSON")
         [] document.kind \notin {"state", "versiononly"} ->
              Returned(proc, "invalid Terraform state: missing 'version' field")
         [] OTHER -> [proc EXCEPT !.pc = "config"]
  /\ UNCHANGED <<invocation, server, requests, filterVars, matchVars, toolVars>>

\* runUpload, lines 253-289: read the state and validate it.
UploadRead ==
  /\ Running("upload", "read")
  /\ proc' =
       CASE document.kind = "unreadable" -> Returned(proc, "failed to read state file")
         [] document.kind = "empty" -> Returned(proc, "empty state data provided")
         [] document.kind = "notjson" -> Returned(proc, "invalid JSON")
         [] document.kind = "versiononly" ->
              Returned(proc, "invalid Terraform state: missing 'resources' field")
         [] document.kind # "state" ->
              Returned(proc, "invalid Terraform state: missing 'version' field")
         [] OTHER -> [proc EXCEPT !.pc = "config"]
  /\ UNCHANGED <<invocation, server, requests, filterVars, matchVars, toolVars>>

\* runUpload, lines 291-318: the filter configuration, the platform
\* settings and the enforcement check.
UploadPolicy ==
  /\ Running("upload", "config")
  /\ proc' =
       IF /\ proc.discovery # JNull
          /\ proc.discovery.Features.SensitiveFiltering.Available
          /\ invocation.noFilter
          /\ proc.discovery.Features.SensitiveFiltering.Enforced
         THEN Returned(proc, "filtering is required")
         ELSE [proc EXCEPT
                 !.pc = "filter",
                 !.filterConfig =
                    resolvedConfig(GetMergedConfig(invocation.loadErr, projectConfig),
                                   proc.discovery)]
  /\ UNCHANGED <<invocation, server, requests, filterVars, matchVars, toolVars>>

\* runUpload, lines 320-352: filter unless disabled; the dry-run report.
UploadFilter ==
  /\ Running("upload", "filter")
  /\ IF invocation.noFilter
       THEN /\ proc' = [proc EXCEPT !.pc = "post", !.uploadData = document.doc]
            /\ UNCHANGED result
       ELSE /\ \E ord \in KeyOrders :
                 result' = Called(Filter(document.doc, proc.filterConfig, ord))
            /\ proc' =
                 IF invocation.filterDryRun
                   THEN [Returned(proc, "") EXCEPT !.report = TRUE]
                   ELSE [proc EXCEPT !.pc = "post", !.uploadData = result'.FilteredJSON,
                                     !.sensitiveFiltered = TRUE]
  /\ UNCHANGED <<invocation, server, requests, document, projectConfig, fragment, refiltered,
                 matchVars, toolVars>>

\* runUpload, lines 354-431: the POST and the server's answer.  Reading
\* discovery.Endpoints through a nil pointer ends the process.
UploadPost ==
  /\ Running("upload", "post")
  /\ IF proc.discovery = JNull
       THEN /\ proc' = [proc EXCEPT !.pc = "panic"]
            /\ UNCHANGED requests
       ELSE /\ requests' = Append(requests, [body |-> proc.uploadData,
                                             sensitiveFiltered |-> proc.sensitiveFiltered])
            /\ \E status \in {200, 403} :
                 proc' = Returned(proc, IF status = 200 THEN "" ELSE "access denied")
  /\ UNCHANGED <<invocation, server, filterVars, matchVars, toolVars>>

\* runReview, lines 193-221: workspace, token, service discovery, feature.
ReviewBegin ==
  /\ Running("review", "start")
  /\ proc' =
       IF ~invocation.workspace THEN Returned(proc, "workspace is required")
       ELSE IF ~invocation.token THEN Returned(proc, "not authenticated")
       ELSE IF /\ FetchServiceDiscovery(server, fragment) # JNull
               /\ ~FetchServiceDiscovery(server, fragment).Features.PRRiskAssessment
         THEN Returned(proc, "PR Risk Assessment feature is not available")
       ELSE [proc EXCEPT !.pc = "read", !.discovery = FetchServiceDiscovery(server, fragment)]
  /\ UNCHANGED <<invocation, server, requests, filterVars, matchVars, toolVars>>

\* runReview, lines 223-260: read the plan and validate it.
ReviewRead ==
  /\ Running("review", "read")
  /\ proc' =
       CASE document.kind = "unreadable" -> Returned(proc, "failed to read plan file")
         [] document.kind = "empty" -> Returned(proc, "empty plan data provided")
         [] document.kind = "notjson" -> Returned(proc, "invalid JSON")
         [] document.kind = "state" ->
              Returned(proc, "this appears to be Terraform state, not a plan")
         [] document.kind # "plan" ->
              Returned(proc, "invalid Terraform plan: missing 'resource_changes' field")
         [] OTHER -> [proc EXCEPT !.pc = "config"]
  /\ UNCHANGED <<invocation, server, requests, filterVars, matchVars, toolVars>>

\* runReview, lines 262-288: the filter configuration, the platform
\* settings and the enforcement check.
ReviewPolicy ==
  /\ Running("review", "config")
  /\ proc' =
       IF /\ proc.discovery # JNull
          /\ proc.discovery.Features.SensitiveFiltering.Available
          /\ invocation.noFilter
          /\ proc.discovery.Features.SensitiveFiltering.Enforced
         THEN Returned(proc, "filtering is required")
         ELSE [proc EXCEPT
                 !.pc = "filter",
                 !.filterConfig =
                    resolvedConfig(GetMergedConfig(invocation.loadErr, projectConfig),
                                   proc.discovery)]
  /\ UNCHANGED <<invocation, server, requests, filterVars, matchVars, toolVars>>

\* runReview, lines 290-324: filter unless disabled; the dry-run report.
ReviewFilter ==
  /\ Running("review", "filter")
  /\ IF invocation.noFilter
       THEN /\ proc' = IF invocation.filterDryRun
                         THEN Returned(proc, "")
                         ELSE [proc EXCEPT !.pc = "post", !.uploadData = document.doc]
            /\ UNCHANGED result
       ELSE /\ \E ord \in KeyOrders :
                 result' = Called(FilterPlan(document.doc, proc.filterConfig, ord))
            /\ proc' =
                 IF invocation.filterDryRun
                   THEN [Returned(proc, "") EXCEPT !.report = TRUE]
                   ELSE [proc EXCEPT !.pc = "post", !.uploadData = result'.FilteredJSON,
                                     !.sensitiveFiltered = TRUE]
  /\ UNCHANGED <<invocation, server, requests, document, projectConfig, fragment, refiltered,
                 matchVars, toolVars>>

\* runReview, lines 326-439: the POST and the server's answer.  Reading
\* discovery.Endpoints through a nil pointer ends the process.
ReviewPost ==
  /\ Running("review", "post")
  /\ IF proc.discovery = JNull
       THEN /\ proc' = [proc EXCEPT !.pc = "panic"]
            /\ UNCHANGED requests
       ELSE /\ requests' = Append(requests, [body |-> proc.uploadData,
                                             sensitiveFiltered |-> proc.sensitiveFiltered])
            /\ \E status \in {200, 403} :
                 proc' = Returned(proc, IF status = 200 THEN "" ELSE "access denied")
  /\ UNCHANGED <<invocation, server, filterVars, matchVars, toolVars>>

(***************************************************************************)
(* Specification SpecCmd: one run of cora upload or cora review.           *)
(***************************************************************************)
\* Scenario A: a state with a random_password and a database instance.
ScenarioState ==
  State(JObj(NPassword :> JObj(StrValue :> Scalar @@ StrSensitive :> JBool(TRUE))),
        << Resource("managed", TRandom, <<"a">>, <<Instance(JNull, FlatAttrs, <<>>)>>),
           Resource("managed", TDb, <<"a">>, <<Instance(JNull, FlatAttrs, <<>>)>>) >>)

\* Scenario B: a plan with one resource_change of type random_password.
ScenarioPlan ==
  Plan(JNull, JNull,
       <<ResourceChange("managed", TRandom, <<"a">>, Change(JNull, FlatAttrs, JNull, JNull)),
         ResourceChange("managed", TDb, <<"a">>, Change(FlatAttrs, FlatAttrs, JNull, JNull))>>,
       JNull)

\* What the command reads from --file or stdin: nothing readable, no bytes,
\* bytes that are not JSON, the object {}, an object with version but
\* neither resources nor resource_changes (doc is the TerraformState it
\* decodes to), a state, a plan.
CmdDocuments ==
  { [kind |-> "unreadable"], [kind |-> "empty"], [kind |-> "notjson"], [kind |-> "object"],
    [kind |-> "versiononly", doc |-> State(JNull, <<>>)],
    [kind |-> "state", doc |-> ScenarioState], [kind |-> "plan", doc |-> ScenarioPlan] }

\* The sensitiveFiltering sections a server may serve.
ServedFragments ==
  [Available : BOOLEAN, Enforced : BOOLEAN,
   AdditionalOmitTypes : {<<>>, <<TDb>>}, AdditionalOmitAttributes : {<<>>}]
  \cup
  {[Available |-> TRUE, Enforced |-> TRUE,
    AdditionalOmitTypes |-> <<TDb>>, AdditionalOmitAttributes |-> <<NIp>>]}

Servers ==
  {[discovery |-> "unbuildable"], [discovery |-> "default"]}
  \cup [discovery : {"served"}, PRRiskAssessment : BOOLEAN]

Invocations ==
  [command : {"upload", "review"}, workspace : BOOLEAN, token : BOOLEAN,
   noFilter : BOOLEAN, filterDryRun : BOOLEAN, loadErr : BOOLEAN]

NewRun ==
  [pc |-> "start", discovery |-> JNull, filterConfig |-> JNull, uploadData |-> JNull,
   sensitiveFiltered |-> FALSE, report |-> FALSE, err |-> ""]

InitCmd ==
  /\ invocation \in Invocations
  /\ server \in Servers
  /\ fragment \in IF server.discovery = "served"
                    THEN ServedFragments
                    ELSE {defaultDiscovery.Features.SensitiveFiltering}
  /\ document \in CmdDocuments
  /\ projectConfig \in {NoConfigFile}
                         \cup {c \in ProjectConfigs : c.present /\ c.PreserveAttributes = <<>>
                                                      /\ c.OmitResourceTypes # <<>>}
  /\ proc = NewRun
  /\ requests = <<>>
  /\ result = NotFiltered
  /\ refiltered = NotFiltered
  /\ attrName = <<>>
  /\ patterns = <<>>
  /\ matched = NotCalled
  /\ ToolsIdle

NextCmd ==
  \/ UploadBegin \/ UploadRead \/ UploadPolicy \/ UploadFilter \/ UploadPost
  \/ ReviewBegin \/ ReviewRead \/ ReviewPolicy \/ ReviewFilter \/ ReviewPost

SpecCmd == InitCmd /\ [][NextCmd]_vars

(***************************************************************************)
(* C5                                                                      *)
(***************************************************************************)
\* The run was started with --no-filter against a server whose discovery
\* document declares enforced = true in its sensitiveFiltering section.
EnforcedNoFilter ==
  /\ invocation.command \in {"upload", "review"}
  /\ invocation.noFilter
  /\ server.discovery = "served"
  /\ fragment.Enforced

\* C5: whenever the platform fragment declares enforced = true and the
\* caller passes --no-filter, the run ends with an error, which is the
\* policy error once the run has a valid document, and no document is
\* filtered or sent; whatever the fragment's other fields are.
C5_EnforcedRejectsNoFilter ==
  EnforcedNoFilter =>
    /\ requests = <<>>
    /\ ~result.called
    /\ proc.pc \notin {"filter", "post", "panic"}
    /\ proc.pc = "done" => proc.err # ""

(***************************************************************************)
(* C6                                                                      *)
(***************************************************************************)
\* C6: in every run of upload or review with --filter-dry-run set, no
\* upload request is ever sent, whatever the other flags are.
C6_DryRunNeverUploads ==
  (invocation.command \in {"upload", "review"} /\ invocation.filterDryRun)
    => requests = <<>>

(***************************************************************************)
(* What the claims below read off documents, policies and results.         *)
(***************************************************************************)
\* key case-insensitively contains one of the patterns.
MatchesAny(key, pats) == \E i \in 1..Len(pats) : IsCISubstring(pats[i], key)

\* key matches an omit-attribute pattern of the effective policy.
MatchesOmit(key) ==
  MatchesAny(key, config.PlatformOmitAttributes) \/ MatchesAny(key, config.OmitAttributes)

\* key equals a preserve pattern of the effective policy, letter case aside.
MatchesPreserve(key) ==
  \E i \in 1..Len(config.PreserveAttributes) :
    toLowerCase(config.PreserveAttributes[i]) = toLowerCase(key)

\* The object keys at any depth of a JSON value.
RECURSIVE KeysIn(_)
KeysIn(v) ==
  CASE v.k = "obj" -> DOMAIN v.o \cup UNION {KeysIn(v.o[key]) : key \in DOMAIN v.o}
    [] v.k = "arr" -> UNION {KeysIn(v.a[i]) : i \in 1..Len(v.a)}
    [] OTHER -> {}

\* The resources of a planned-values module and of the modules below it.
RECURSIVE ModuleResources(_)
ModuleResources(pm) ==
  IF pm = JNull
    THEN <<>>
    ELSE pm.Resources
           \o Flatten([i \in 1..Len(pm.ChildModules) |-> ModuleResources(pm.ChildModules[i])])

PlannedResources(plan) ==
  IF plan.PlannedValues = JNull THEN <<>> ELSE ModuleResources(plan.PlannedValues.RootModule)

Range(seq) == {seq[i] : i \in 1..Len(seq)}

\* The attribute trees of a state's instances.
StateTrees(state) ==
  UNION {{state.Resources[i].Instances[j].Attributes :
            j \in 1..Len(state.Resources[i].Instances)} : i \in 1..Len(state.Resources)}

\* The before and after trees of a plan's changes and the value trees of
\* its planned-values resources.
PlanTrees(plan) ==
  UNION {{rc.Change.Before, rc.Change.After} :
           rc \in {c \in Range(plan.ResourceChanges) : c.Change # JNull}}
  \cup {pr.Values : pr \in Range(PlannedResources(plan))}

\* The attribute trees the filtered document retains.
RetainedTrees ==
  IF document.kind = "state"
    THEN StateTrees(result.FilteredJSON)
    ELSE PlanTrees(result.FilteredJSON)

IsPrefix(p, q) == Len(p) <= Len(q) /\ SubSeq(q, 1, Len(p)) = p

\* path lies under the resource path or address p.
Under(path, p) == IsPrefix(p \o <<".">>, path) \/ IsPrefix(p \o <<"[">>, path)

CountWhere(seq, Test(_)) == Cardinality({i \in 1..Len(seq) : Test(seq[i])})

(***************************************************************************)
(* C1                                                                      *)
(***************************************************************************)
\* C1: with an empty preserve list, after Filter or FilterPlan no object
\* key at any depth of a retained attribute tree, reached through any
\* nesting of objects and arrays, case-insensitively contains an
\* omit-attribute pattern of the effective policy.
C1_NoOmitKeyRetained ==
  (result.called /\ document.kind \in {"state", "plan"} /\ config.PreserveAttributes = <<>>)
    => \A tree \in RetainedTrees : \A key \in KeysIn(tree) : ~MatchesOmit(key)

(***************************************************************************)
(* C2                                                                      *)
(***************************************************************************)
\* Every key the traversal of in reaches that matches a preserve pattern is
\* in out with the value it has in in, and no omission has its path.
RECURSIVE PreservedKept(_, _, _)
PreservedKept(in, out, path) ==
  CASE in.k = "obj" ->
         /\ out.k = "obj"
         /\ \A key \in DOMAIN in.o :
              IF MatchesPreserve(key)
                THEN /\ key \in DOMAIN out.o
                     /\ out.o[key] = in.o[key]
                     /\ \A i \in 1..Len(result.Omissions) :
                          result.Omissions[i].Path # path \o <<".">> \o key
                ELSE key \in DOMAIN out.o =>
                       PreservedKept(in.o[key], out.o[key], path \o <<".">> \o key)
    [] in.k = "arr" ->
         /\ out.k = "arr"
         /\ Len(out.a) = Len(in.a)
         /\ \A i \in 1..Len(in.a) :
              in.a[i].k = "obj" =>
                PreservedKept(in.a[i], out.a[i], path \o <<"[">> \o Itoa(i - 1) \o <<"]">>)
    [] OTHER -> TRUE

\* C2: in attribute-tree filtering every key the traversal reaches that
\* matches a preserve pattern is kept with its value and produces no
\* omission record, whatever omit source it also matches.
C2_PreserveOverridesOmit ==
  result.called => PreservedKept(document.doc, result.FilteredJSON, TreeBasePath)

\* A filtered tree whose top level has a preserved key that a platform
\* pattern and a project pattern match, and a preserved key that the
\* provider flagged while the policy honours the flags.
C2_Witness ==
  /\ result.called
  /\ document.doc.k = "obj"
  /\ \E key \in DOMAIN document.doc.o :
       /\ MatchesPreserve(key)
       /\ MatchesAny(key, config.PlatformOmitAttributes)
       /\ MatchesAny(key, config.OmitAttributes)
  /\ \E key \in DOMAIN document.doc.o :
       /\ MatchesPreserve(key)
       /\ config.HonorTerraformSensitive
       /\ key \in document.sensitive

(***************************************************************************)
(* C3                                                                      *)
(***************************************************************************)
\* The keys directly inside v, or inside the objects of the array v.
ChildKeys(v) ==
  CASE v.k = "obj" -> DOMAIN v.o
    [] v.k = "arr" -> UNION {DOMAIN v.a[i].o : i \in {j \in 1..Len(v.a) : v.a[j].k = "obj"}}
    [] OTHER -> {}

\* C3: under a top-level key that is kept because it matches a preserve
\* pattern, a nested key that matches an omit pattern and no preserve
\* pattern is removed from the output and recorded as an omission.
C3_PreservedSubtreeFiltered ==
  (result.called /\ document.doc.k = "obj") =>
    \A key \in {n \in DOMAIN document.doc.o : MatchesPreserve(n)} :
      \A child \in {c \in ChildKeys(document.doc.o[key]) :
                      MatchesOmit(c) /\ ~MatchesPreserve(c)} :
        /\ key \in DOMAIN result.FilteredJSON.o
        /\ child \notin ChildKeys(result.FilteredJSON.o[key])
        /\ \E i \in 1..Len(result.Omissions) :
             /\ IsPrefix(TreeBasePath \o <<".">> \o key, result.Omissions[i].Path)
             /\ result.Omissions[i].Type = "attribute"

(***************************************************************************)
(* C7                                                                      *)
(***************************************************************************)
\* C7: filtering the output of Filter (resp. FilterPlan) again with the
\* same policy yields an empty omission list and OmittedResources =
\* OmittedAttributes = 0.
C7_Idempotent ==
  refiltered.called =>
    /\ refiltered.Omissions = <<>>
    /\ refiltered.Summary.OmittedResources = 0
    /\ refiltered.Summary.OmittedAttributes = 0

\* A second pass over a document whose first pass omitted a resource and
\* an attribute.
C7_Witness ==
  /\ refiltered.called
  /\ result.Summary.OmittedResources > 0
  /\ result.Summary.OmittedAttributes > 0

(***************************************************************************)
(* C8                                                                      *)
(***************************************************************************)
InList(type, list) == \E i \in 1..Len(list) : list[i] = type

\* The record the first-match order gives a resource of this mode and type
\* at this path, if any: data-source check, platform types, project and
\* default types.
OrderedRecord(mode, type, path) ==
  IF mode = "data" /\ config.OmitDataSources
    THEN {[Path |-> path, Reason |-> <<"data source lookup omitted">>,
           Type |-> "resource", FromPlatform |-> FALSE]}
  ELSE IF InList(type, config.PlatformOmitResourceTypes)
    THEN {[Path |-> path, Reason |-> <<"resource type '">> \o type \o <<"' is in omit list">>,
           Type |-> "resource", FromPlatform |-> TRUE]}
  ELSE IF InList(type, config.OmitResourceTypes)
    THEN {[Path |-> path, Reason |-> <<"resource type '">> \o type \o <<"' is in omit list">>,
           Type |-> "resource", FromPlatform |-> FALSE]}
  ELSE {}

ResourceRecords == {o \in Range(result.Omissions) : o.Type = "resource"}

\* The paths of the resources the prior state of the filtered plan had.
PriorPaths ==
  IF document.kind = "plan" /\ document.doc.PriorState # JNull
    THEN {formatResourcePath(r) : r \in Range(document.doc.PriorState.Resources)}
    ELSE {}

\* C8: Filter, FilterPlan's resource_changes and the planned-values modules
\* decide a resource in the same first-match order: data-source check, then
\* platform omit-types, then project/default omit-types.  The record of
\* every resource is the one that order gives, and a resource the order
\* passes has none.
C8_SameFirstMatchOrder ==
  result.called =>
    /\ document.kind = "state" =>
         \A r \in Range(document.doc.Resources) :
           /\ OrderedRecord(r.Mode, r.Type, formatResourcePath(r)) \subseteq ResourceRecords
           /\ (\A q \in Range(document.doc.Resources) :
                 formatResourcePath(q) = formatResourcePath(r) =>
                   OrderedRecord(q.Mode, q.Type, formatResourcePath(q)) = {})
                => \A o \in ResourceRecords : o.Path # formatResourcePath(r)
    /\ document.kind = "plan" =>
         \A r \in Range(document.doc.ResourceChanges) \cup Range(PlannedResources(document.doc)) :
           /\ OrderedRecord(r.Mode, r.Type, r.Address) \subseteq ResourceRecords
           /\ (OrderedRecord(r.Mode, r.Type, r.Address) = {} /\ r.Address \notin PriorPaths)
                => \A o \in ResourceRecords : o.Path # r.Address

\* A filtered plan with a data resource in a planned-values module whose
\* type is in the platform list, and a managed resource in resource_changes
\* whose type is in the platform and in the project list.
C8_Witness ==
  /\ result.called
  /\ document.kind = "plan"
  /\ config.OmitDataSources
  /\ \E r \in Range(PlannedResources(document.doc)) :
       r.Mode = "data" /\ InList(r.Type, config.PlatformOmitResourceTypes)
  /\ \E r \in Range(document.doc.ResourceChanges) :
       /\ r.Mode = "managed"
       /\ InList(r.Type, config.PlatformOmitResourceTypes)
       /\ InList(r.Type, config.OmitResourceTypes)

(***************************************************************************)
(* C9                                                                      *)
(***************************************************************************)
PathOf(r) == [Path |-> formatResourcePath(r), Mode |-> r.Mode, Type |-> r.Type]
AddressOfEntry(r) == [Path |-> r.Address, Mode |-> r.Mode, Type |-> r.Type]

\* The resources and resource changes the claim is about.
ListedObjects ==
  IF document.kind = "state"
    THEN [i \in 1..Len(document.doc.Resources) |-> PathOf(document.doc.Resources[i])]
    ELSE [i \in 1..Len(document.doc.ResourceChanges) |->
            AddressOfEntry(document.doc.ResourceChanges[i])]

\* Every object of the document that the resource-level checks are run on:
\* in a plan also the planned-values resources and the prior state's.
CheckedObjects ==
  IF document.kind = "state"
    THEN ListedObjects
    ELSE ListedObjects
           \o [i \in 1..Len(PlannedResources(document.doc)) |->
                 AddressOfEntry(PlannedResources(document.doc)[i])]
           \o (IF document.doc.PriorState = JNull
                 THEN <<>>
                 ELSE [i \in 1..Len(document.doc.PriorState.Resources) |->
                         PathOf(document.doc.PriorState.Resources[i])])

OmittedAtResourceLevel(e) == OrderedRecord(e.Mode, e.Type, e.Path) # {}

\* No resource or change of the filtered document is the omitted e.
AbsentFromOutput(e) ==
  IF document.kind = "state"
    THEN \A f \in Range(result.FilteredJSON.Resources) :
           ~(formatResourcePath(f) = e.Path /\ f.Mode = e.Mode /\ f.Type = e.Type)
    ELSE \A f \in Range(result.FilteredJSON.ResourceChanges) : f.Address # e.Path

NoAttributeRecordUnder(path) ==
  \A i \in 1..Len(result.Omissions) :
    ~(result.Omissions[i].Type = "attribute" /\ Under(result.Omissions[i].Path, path))

\* C9, as stated: for every resource or resource change omitted at the
\* resource level the result has exactly one record of kind resource with
\* its path and no record of kind attribute under its path, and the
\* resource or change is absent from the filtered document.
C9_OneRecordPerOmittedResource ==
  (result.called /\ document.kind \in {"state", "plan"}) =>
    \A e \in Range(ListedObjects) :
      OmittedAtResourceLevel(e) =>
        /\ CountWhere(result.Omissions,
                      LAMBDA o : o.Type = "resource" /\ o.Path = e.Path) = 1
        /\ NoAttributeRecordUnder(e.Path)
        /\ AbsentFromOutput(e)

\* C9, amended: an omitted resource or change is absent from the filtered
\* document; the result has one record of kind resource with its path for
\* each omitted object of the document that has that path; and it has a
\* record of kind attribute under that path only if a kept object of the
\* document has the same path.
C9_OneRecordPerOmittedObject ==
  (result.called /\ document.kind \in {"state", "plan"}) =>
    \A e \in Range(ListedObjects) :
      OmittedAtResourceLevel(e) =>
        /\ CountWhere(result.Omissions,
                      LAMBDA o : o.Type = "resource" /\ o.Path = e.Path)
             = CountWhere(CheckedObjects,
                          LAMBDA c : c.Path = e.Path /\ OmittedAtResourceLevel(c))
        /\ (\A c \in Range(CheckedObjects) : c.Path = e.Path => OmittedAtResourceLevel(c))
             => NoAttributeRecordUnder(e.Path)
        /\ AbsentFromOutput(e)

\* A filtered plan with an omitted change whose resource is also in the
\* planned values, and with a kept change that lost an attribute.
C9_Witness ==
  /\ result.called
  /\ document.kind = "plan"
  /\ \E e \in Range(ListedObjects) :
       /\ OmittedAtResourceLevel(e)
       /\ CountWhere(CheckedObjects, LAMBDA c : c.Path = e.Path) > 1
  /\ result.Summary.OmittedAttributes > 0

(***************************************************************************)
(* C10                                                                     *)
(***************************************************************************)
IsResourceRecord(o) == o.Type = "resource"
IsAttributeRecord(o) == o.Type = "attribute"

\* C10: in every result of Filter and FilterPlan, Summary.OmittedResources
\* is the number of omission records of kind resource and
\* Summary.OmittedAttributes the number of records of kind attribute.
C10_CountersMatchRecords ==
  result.called =>
    /\ result.Summary.OmittedResources = CountWhere(result.Omissions, IsResourceRecord)
    /\ result.Summary.OmittedAttributes = CountWhere(result.Omissions, IsAttributeRecord)
    /\ \A i \in 1..Len(result.Omissions) : result.Omissions[i].Type \in {"resource", "attribute"}

\* A filtered plan whose records come from resource_changes, variables,
\* planned-values outputs and the prior state.
C10_Witness ==
  /\ result.called
  /\ document.kind = "plan"
  /\ document.doc.PriorState # JNull
  /\ \E i \in 1..Len(result.Omissions) :
       IsPrefix(<<"v","a","r","i","a","b","l","e","s",".">>, result.Omissions[i].Path)
  /\ \E i \in 1..Len(result.Omissions) :
       IsPrefix(<<"p","l","a","n","n","e","d","_">>, result.Omissions[i].Path)
  /\ \E i \in 1..Len(result.Omissions) :
       IsPrefix(<<"o","u","t","p","u","t","s",".">>, result.Omissions[i].Path)
  /\ result.Summary.OmittedResources > 1

(***************************************************************************)
(* C11                                                                     *)
(***************************************************************************)
\* The name an attribute-kind omission path ends with: what follows its
\* last dot.
RECURSIVE LastKey(_)
LastKey(path) ==
  IF \E i \in 1..Len(path) : path[i] = "."
    THEN LastKey(Tail(path))
    ELSE path

\* C11: every attribute-kind omission record whose name matches a
\* platform-sourced omit-attribute pattern has FromPlatform = TRUE, also
\* when a project or default pattern matches the name as well; for
\* resource attributes, state outputs, planned-values outputs and plan
\* variables alike.
C11_PlatformMatchIsFromPlatform ==
  (result.called /\ document.kind \in {"state", "plan"}) =>
    \A i \in 1..Len(result.Omissions) :
      (/\ IsAttributeRecord(result.Omissions[i])
       /\ MatchesAny(LastKey(result.Omissions[i].Path), config.PlatformOmitAttributes))
        => result.Omissions[i].FromPlatform

(***************************************************************************)
(* C12                                                                     *)
(***************************************************************************)
\* The policy upload and review resolve when no configuration file exists,
\* under the discovery document the run fetched.
defaultsOnlyPolicy == resolvedConfig(GetMergedConfig(FALSE, NoConfigFile), proc.discovery)

\* C12: when loading the project configuration fails (unreadable file or
\* malformed content), the policy upload and review continue with equals,
\* field for field, the policy resolved when no configuration file exists,
\* omitDataSources = true included.
C12_LoadErrorFallsBackToDefaults ==
  (invocation.command \in {"upload", "review"} /\ invocation.loadErr
     /\ proc.pc \in {"filter", "post", "done", "panic"} /\ proc.filterConfig # JNull)
    => proc.filterConfig = defaultsOnlyPolicy

(***************************************************************************)
(* C13                                                                     *)
(***************************************************************************)
\* What .cora.yaml declares for a list, nothing when there is no file.
ProjectOmitResourceTypes == IF projectConfig.present THEN projectConfig.OmitResourceTypes ELSE <<>>
ProjectOmitAttributes == IF projectConfig.present THEN projectConfig.OmitAttributes ELSE <<>>
ProjectPreserveAttributes ==
  IF projectConfig.present THEN projectConfig.PreserveAttributes ELSE <<>>

\* What the platform declares for a list, nothing when its filtering
\* section is not available.
PlatformDeclaredTypes == IF fragment.Available THEN fragment.AdditionalOmitTypes ELSE <<>>
PlatformDeclaredAttributes ==
  IF fragment.Available THEN fragment.AdditionalOmitAttributes ELSE <<>>

\* C13: the effective omit-attribute list is the built-in defaults, then
\* the project's patterns, then the platform's patterns, in that order and
\* with nothing removed; likewise the omit-resource-types list; the
\* platform's entries are also recorded on their own as platform-sourced;
\* the preserve list is the project's list if declared and else empty.
C13_MergeIsDefaultsProjectPlatform ==
  /\ config.OmitAttributes
       = DefaultOmitAttributes \o ProjectOmitAttributes \o PlatformDeclaredAttributes
  /\ config.OmitResourceTypes
       = DefaultOmitResourceTypes \o ProjectOmitResourceTypes \o PlatformDeclaredTypes
  /\ config.PlatformOmitAttributes = PlatformDeclaredAttributes
  /\ config.PlatformOmitResourceTypes = PlatformDeclaredTypes
  /\ config.PreserveAttributes = ProjectPreserveAttributes

\* A document filtered under a policy merged from a configuration file
\* that declares both omit lists and a platform section that declares both.
C13_Witness ==
  /\ result.called
  /\ ProjectOmitAttributes # <<>>
  /\ ProjectOmitResourceTypes # <<>>
  /\ PlatformDeclaredAttributes # <<>>
  /\ PlatformDeclaredTypes # <<>>

(***************************************************************************)
(* C14                                                                     *)
(***************************************************************************)
\* The output object carries "sensitive": true.
MarkedSensitive(output) ==
  /\ output.k = "obj"
  /\ StrSensitive \in DOMAIN output.o
  /\ output.o[StrSensitive] = JBool(TRUE)

\* C14: Filter removes a top-level state output if and only if its name
\* matches an omit-attribute pattern or its object has sensitive: true, and
\* emits every output it keeps with the value unchanged, whatever the
\* value nests.
C14_OutputRemovedIffNameOrMarker ==
  (result.called /\ document.kind = "state" /\ document.doc.Outputs # JNull) =>
    /\ result.FilteredJSON.Outputs.k = "obj"
    /\ DOMAIN result.FilteredJSON.Outputs.o \subseteq DOMAIN document.doc.Outputs.o
    /\ \A name \in DOMAIN document.doc.Outputs.o :
         IF \/ MatchesAny(name, config.OmitAttributes)
            \/ MarkedSensitive(document.doc.Outputs.o[name])
           THEN name \notin DOMAIN result.FilteredJSON.Outputs.o
           ELSE /\ name \in DOMAIN result.FilteredJSON.Outputs.o
                /\ result.FilteredJSON.Outputs.o[name] = document.doc.Outputs.o[name]

\* A filtered state with an output removed for its name, one removed for
\* its marker alone, and one kept although its value nests a key that
\* matches an omit-attribute pattern.
C14_Witness ==
  /\ result.called
  /\ document.kind = "state"
  /\ document.doc.Outputs # JNull
  /\ \E name \in DOMAIN document.doc.Outputs.o \ DOMAIN result.FilteredJSON.Outputs.o :
       MatchesAny(name, config.OmitAttributes)
  /\ \E name \in DOMAIN document.doc.Outputs.o \ DOMAIN result.FilteredJSON.Outputs.o :
       ~MatchesAny(name, config.OmitAttributes)
  /\ \E name \in DOMAIN result.FilteredJSON.Outputs.o :
       NPassword \in KeysIn(document.doc.Outputs.o[name])

(***************************************************************************)
(* C15                                                                     *)
(***************************************************************************)
\* The plan without its embedded prior state.
WithoutPriorState(plan) == [plan EXCEPT !.PriorState = JNull]

\* sum is what the plan's own sections count plus what the prior state's
\* result counts, for each of the four counters.
SummaryIsSum(sum, own, prior) ==
  /\ sum.TotalResources = own.TotalResources + prior.TotalResources
  /\ sum.OmittedResources = own.OmittedResources + prior.OmittedResources
  /\ sum.TotalAttributes = own.TotalAttributes + prior.TotalAttributes
  /\ sum.OmittedAttributes = own.OmittedAttributes + prior.OmittedAttributes

\* C15: for a plan with an embedded prior_state, the result of FilterPlan
\* contains every omission record that Filter returns for the prior state,
\* with the path unchanged, and each of its four summary counters (total
\* and omitted resources, total and omitted attributes) includes the
\* corresponding count of the prior state's result.
C15_PriorStateMergedInFull ==
  (result.called /\ document.kind = "plan" /\ document.doc.PriorState # JNull) =>
    \E ord \in KeyOrders :
      /\ Range(Filter(document.doc.PriorState, config, ord).Omissions)
           \subseteq Range(result.Omissions)
      /\ SummaryIsSum(result.Summary,
                      FilterPlan(WithoutPriorState(document.doc), config, ord).Summary,
                      Filter(document.doc.PriorState, config, ord).Summary)

(***************************************************************************)
(* C16                                                                     *)
(***************************************************************************)
\* The names a before_sensitive or after_sensitive marker flags true.
FlaggedIn(marker) ==
  IF marker.k = "obj" THEN {key \in DOMAIN marker.o : marker.o[key] = JBool(TRUE)} ELSE {}

FlaggedInChange(change) ==
  FlaggedIn(change.BeforeSensitive) \cup FlaggedIn(change.AfterSensitive)

SidePath(address, side) ==
  address \o (IF side = "Before" THEN <<".","b","e","f","o","r","e">>
                                 ELSE <<".","a","f","t","e","r">>)

MarkedReason ==
  <<"m","a","r","k","e","d"," ","a","s"," ","s","e","n","s","i","t","i","v","e"," ",
    "b","y"," ","T","e","r","r","a","f","o","r","m">>

\* The change of the input plan that the surviving change out came from.
InputChangeOf(out) ==
  CHOOSE rc \in Range(document.doc.ResourceChanges) : rc.Address = out.Address

\* key, present at the top of the side tree of the input change in, is
\* absent from that tree of the surviving change out and has an omission
\* record with the path <address>.<side>.<key>.
RemovedFromSide(in, out, side, key) ==
  (in.Change[side].k = "obj" /\ key \in DOMAIN in.Change[side].o) =>
    /\ key \notin DOMAIN out.Change[side].o
    /\ \E i \in 1..Len(result.Omissions) :
         /\ result.Omissions[i].Path = SidePath(in.Address, side) \o <<".">> \o key
         /\ result.Omissions[i].Type = "attribute"

\* What a surviving change shows of its markers: with the markers honoured
\* every flagged name, those Spared(key) holds for aside, is removed from
\* both trees; without, no record gives the markers as its reason; either
\* way both marker fields are cleared.
MarkersApplied(out, Spared(_)) ==
  out.Change # JNull =>
    /\ out.Change.BeforeSensitive = JNull
    /\ out.Change.AfterSensitive = JNull
    /\ config.HonorTerraformSensitive =>
         \A key \in FlaggedInChange(InputChangeOf(out).Change) :
           ~Spared(key) =>
             /\ RemovedFromSide(InputChangeOf(out), out, "Before", key)
             /\ RemovedFromSide(InputChangeOf(out), out, "After", key)
    /\ ~config.HonorTerraformSensitive =>
         /\ \A i \in 1..Len(result.Omissions) : result.Omissions[i].Reason # MarkedReason
         /\ \A key \in FlaggedInChange(InputChangeOf(out).Change) :
              \A side \in {"Before", "After"} :
                (/\ InputChangeOf(out).Change[side].k = "obj"
                 /\ key \in DOMAIN InputChangeOf(out).Change[side].o
                 /\ ~MatchesOmit(key))
                  => key \in DOMAIN out.Change[side].o

NoKeySpared(key) == FALSE

\* C16 as stated: for every surviving resource change, with the markers
\* honoured every name flagged true in before_sensitive or after_sensitive
\* is removed from the before tree and from the after tree, with omission
\* paths <address>.before.<key> and <address>.after.<key>; both marker
\* fields are cleared; with the markers not honoured they cause no omission.
C16_FlaggedRemovedFromBothTrees ==
  (result.called /\ document.kind = "plan") =>
    \A i \in 1..Len(result.FilteredJSON.ResourceChanges) :
      MarkersApplied(result.FilteredJSON.ResourceChanges[i], NoKeySpared)

\* C16, amended: as above for every flagged name that matches no preserve
\* pattern; a flagged name that matches a preserve pattern is kept.
C16_FlaggedRemovedUnlessPreserved ==
  (result.called /\ document.kind = "plan") =>
    \A i \in 1..Len(result.FilteredJSON.ResourceChanges) :
      /\ MarkersApplied(result.FilteredJSON.ResourceChanges[i], MatchesPreserve)
      /\ result.FilteredJSON.ResourceChanges[i].Change # JNull =>
           \A key \in FlaggedInChange(
                        InputChangeOf(result.FilteredJSON.ResourceChanges[i]).Change) :
             \A side \in {"Before", "After"} :
               (/\ MatchesPreserve(key)
                /\ InputChangeOf(result.FilteredJSON.ResourceChanges[i]).Change[side].k = "obj"
                /\ key \in DOMAIN
                     InputChangeOf(result.FilteredJSON.ResourceChanges[i]).Change[side].o)
                 => key \in DOMAIN result.FilteredJSON.ResourceChanges[i].Change[side].o

\* A filtered plan with a surviving change whose before and after trees
\* both held a name that only after_sensitive flags and that no omit
\* pattern matches, filtered with the markers honoured: the name is gone
\* from both trees.
C16_Witness ==
  /\ result.called
  /\ document.kind = "plan"
  /\ config.HonorTerraformSensitive
  /\ \E i \in 1..Len(result.FilteredJSON.ResourceChanges) :
       /\ result.FilteredJSON.ResourceChanges[i].Change # JNull
       /\ \E key \in FlaggedIn(
                       InputChangeOf(result.FilteredJSON.ResourceChanges[i]).Change.AfterSensitive)
                     \ FlaggedIn(
                       InputChangeOf(result.FilteredJSON.ResourceChanges[i]).Change.BeforeSensitive) :
            /\ ~MatchesOmit(key)
            /\ ~MatchesPreserve(key)
            /\ InputChangeOf(result.FilteredJSON.ResourceChanges[i]).Change.Before.k = "obj"
            /\ key \in DOMAIN InputChangeOf(result.FilteredJSON.ResourceChanges[i]).Change.Before.o
            /\ key \notin DOMAIN result.FilteredJSON.ResourceChanges[i].Change.Before.o
            /\ key \notin DOMAIN result.FilteredJSON.ResourceChanges[i].Change.After.o

(***************************************************************************)
(* C17                                                                     *)
(***************************************************************************)
\* The map keys of a value, each as the chain of keys and array positions
\* that leads to it: the keys of the object, of the objects nested under
\* its keys, and of the objects that are elements of arrays under its keys.
RECURSIVE KeyChains(_, _)
KeyChains(v, chain) ==
  IF v.k # "obj"
    THEN {}
    ELSE UNION {
           {Append(chain, key)}
             \cup (CASE v.o[key].k = "obj" -> KeyChains(v.o[key], Append(chain, key))
                     [] v.o[key].k = "arr" ->
                          UNION {KeyChains(v.o[key].a[i],
                                           chain \o <<key, <<"[">> \o Itoa(i - 1)>>) :
                                   i \in 1..Len(v.o[key].a)}
                     [] OTHER -> {}) : key \in DOMAIN v.o}

KeyCount(v) == Cardinality(KeyChains(v, <<>>))

\* The resource of the input state that the surviving resource out came from.
InputResourceOf(out) ==
  CHOOSE r \in Range(document.doc.Resources) :
    <<r.Mode, r.Type, r.Name>> = <<out.Mode, out.Type, out.Name>>

InputKeysOfResource(r) ==
  SumSeq([j \in 1..Len(r.Instances) |-> KeyCount(r.Instances[j].Attributes)])

InputKeysOfChange(rc) ==
  IF rc.Change = JNull THEN 0 ELSE KeyCount(rc.Change.Before) + KeyCount(rc.Change.After)

\* C17: Summary.TotalAttributes is the number of map keys of the input
\* attribute trees, keys of nested objects and of objects inside arrays
\* included, scalar array elements not: in Filter of the attributes of
\* every instance of every surviving resource, in FilterPlan of the before
\* and after trees of every surviving resource change as the input
\* document has them.
C17_TotalAttributesCountsInputKeys ==
  /\ (result.called /\ document.kind = "state") =>
       result.Summary.TotalAttributes
         = SumSeq([i \in 1..Len(result.FilteredJSON.Resources) |->
                     InputKeysOfResource(InputResourceOf(result.FilteredJSON.Resources[i]))])
  /\ (result.called /\ document.kind = "plan") =>
       result.Summary.TotalAttributes
         = SumSeq([i \in 1..Len(result.FilteredJSON.ResourceChanges) |->
                     InputKeysOfChange(InputChangeOf(result.FilteredJSON.ResourceChanges[i]))])

(***************************************************************************)
(* C18                                                                     *)
(***************************************************************************)
\* C18: whatever way the service-discovery fetch fails (the request cannot
\* be built, the network fails, the status is not 200, the body cannot be
\* read or parsed), upload and review continue with the default discovery
\* document and its endpoints, and the run never ends in a crash.
C18_FetchFailureContinuesWithDefaults ==
  (invocation.command \in {"upload", "review"} /\ server.discovery # "served") =>
    /\ proc.pc # "panic"
    /\ proc.pc \in {"read", "config", "filter", "post"} => proc.discovery = defaultDiscovery

(***************************************************************************)
(* C19                                                                     *)
(***************************************************************************)
\* The input is not JSON, or lacks a field the command requires: version
\* and resources for upload, resource_changes for review.
InvalidInput ==
  /\ invocation.command \in {"upload", "review"}
  /\ document.kind \in {"notjson", "object", "versiononly"}

\* C19: input that is not valid JSON, a state without version or without
\* resources, and a plan without resource_changes are rejected with an
\* error before any filtering step: the run never gets past reading its
\* input, filters no document and sends no upload request.
C19_InvalidInputRejectedBeforeFiltering ==
  InvalidInput =>
    /\ proc.pc \in {"start", "read", "done"}
    /\ proc.pc = "done" => proc.err # ""
    /\ ~result.called
    /\ proc.filterConfig = JNull
    /\ proc.uploadData = JNull
    /\ requests = <<>>

\* An upload whose input has version but no resources, and a review whose
\* input has no resource_changes, rejected where the input is validated.
C19_Witness ==
  /\ InvalidInput
  /\ proc.pc = "done"
  /\ \/ /\ invocation.command = "upload"
        /\ document.kind = "versiononly"
        /\ proc.err = "invalid Terraform state: missing 'resources' field"
     \/ /\ invocation.command = "review"
        /\ document.kind = "versiononly"
        /\ proc.err = "invalid Terraform plan: missing 'resource_changes' field"

(***************************************************************************)
(* C20                                                                     *)
(***************************************************************************)
\* Every name of the map in that matches a preserve pattern is in the map
\* out with its value and no omission record has the path prefix.name.
PreservedNamesKept(in, out, prefix) ==
  in.k = "obj" =>
    \A name \in DOMAIN in.o :
      MatchesPreserve(name) =>
        /\ out.k = "obj"
        /\ name \in DOMAIN out.o
        /\ out.o[name] = in.o[name]
        /\ \A i \in 1..Len(result.Omissions) : result.Omissions[i].Path # prefix \o name

\* C20: a state output, a planned-values output or a plan variable whose
\* name matches a preserve pattern is retained in the filtered document
\* and has no omission record, whatever omit pattern or marker applies to
\* it as well.
C20_PreservedOutputsAndVariablesKept ==
  /\ (result.called /\ document.kind = "state") =>
       PreservedNamesKept(document.doc.Outputs, result.FilteredJSON.Outputs,
                          <<"o","u","t","p","u","t","s",".">>)
  /\ (result.called /\ document.kind = "plan") =>
       /\ PreservedNamesKept(document.doc.Variables, result.FilteredJSON.Variables,
                             <<"v","a","r","i","a","b","l","e","s",".">>)
       /\ document.doc.PlannedValues # JNull =>
            PreservedNamesKept(document.doc.PlannedValues.Outputs,
                               result.FilteredJSON.PlannedValues.Outputs,
                               <<"p","l","a","n","n","e","d","_","v","a","l","u","e","s",".",
                                 "o","u","t","p","u","t","s",".">>)

(***************************************************************************)
(* Specification SpecShape: the top-level JSON object that Filter and      *)
(* FilterPlan read and the one they emit.  A document is a function from   *)
(* the field names it has to "zero" (null, "", 0, an empty object or       *)
(* array) or "set" (any other value); json.Unmarshal into the struct and   *)
(* json.Marshal of the struct are computed from the struct tags.           *)
(***************************************************************************)
MatchIdle == attrName = <<>> /\ patterns = <<>> /\ matched = NotCalled

CmdIdle == invocation = NoCommand /\ server = NoServer /\ proc = NoRun /\ requests = <<>>

\* The json tags of TerraformState: field name :> omitempty.
TerraformState ==
  "version" :> FALSE @@ "terraform_version" :> FALSE @@ "serial" :> FALSE
  @@ "lineage" :> FALSE @@ "outputs" :> FALSE @@ "resources" :> FALSE

\* The json tags of TerraformPlan.
TerraformPlan ==
  "format_version" :> FALSE @@ "terraform_version" :> FALSE @@ "variables" :> TRUE
  @@ "planned_values" :> TRUE @@ "resource_changes" :> FALSE @@ "prior_state" :> TRUE
  @@ "configuration" :> TRUE @@ "relevant_attributes" :> TRUE @@ "checks" :> TRUE
  @@ "timestamp" :> TRUE

\* json.Unmarshal into a struct with these tags: a tagged field takes the
\* document's value, a field the document lacks keeps the zero value, and a
\* key without a tagged field is discarded.
Unmarshal(tags, fields) ==
  [f \in DOMAIN tags |-> IF f \in DOMAIN fields THEN fields[f] ELSE "zero"]

\* json.Marshal of the struct: every field is written, except an omitempty
\* field that holds its zero value.
Marshal(tags, struct) ==
  [f \in {g \in DOMAIN tags : ~(tags[g] /\ struct[g] = "zero")} |-> struct[f]]

\* Lines 148 and 151-153 of Filter: resources and outputs are replaced by
\* what the filter kept, which is empty when everything is omitted.
filterStateFields(struct, allOmitted) ==
  [struct EXCEPT !["resources"] = IF @ = "set" /\ allOmitted THEN "zero" ELSE @,
                 !["outputs"] = IF @ = "set" /\ allOmitted THEN "zero" ELSE @]

\* Lines 500 and 522-525 of FilterPlan: variables is replaced by the map
\* filterVariables returns, which is empty when every variable is omitted.
filterPlanFields(struct, allOmitted) ==
  [struct EXCEPT !["variables"] = IF @ = "set" /\ allOmitted THEN "zero" ELSE @]

\* The documents: the fields Terraform always writes are set, the others
\* are absent, zero or set.  check_results (state) and output_changes
\* (plan) are fields Terraform writes that the structs do not declare.
FieldMaps(always, optional) ==
  UNION {[always \cup S -> {"zero", "set"}] : S \in SUBSET optional}

ShapeDocuments ==
  [kind : {"state"},
   fields : FieldMaps({"version"},
                      {"terraform_version", "serial", "lineage", "outputs", "resources",
                       "check_results"})]
  \cup
  [kind : {"plan"},
   fields : FieldMaps({"format_version"},
                      {"variables", "planned_values", "resource_changes", "prior_state",
                       "configuration", "output_changes"})]

InitShape ==
  /\ document \in ShapeDocuments
  /\ projectConfig = NoConfigFile
  /\ fragment \in {f \in PlatformFragments : ~f.Available}
  /\ result = NotFiltered
  /\ refiltered = NotFiltered
  /\ MatchIdle
  /\ CmdIdle
  /\ ToolsIdle

\* Filter, lines 66-69 and 155-161, on the document's top-level object.
FilterShape ==
  /\ document.kind = "state"
  /\ ~result.called
  /\ \E allOmitted \in BOOLEAN :
       result' = [called |-> TRUE,
                  FilteredJSON |->
                    Marshal(TerraformState,
                            filterStateFields(Unmarshal(TerraformState, document.fields),
                                              allOmitted))]
  /\ UNCHANGED <<document, projectConfig, fragment, refiltered, matchVars, cmdVars, toolVars>>

\* FilterPlan, lines 426-429 and 527-534, on the document's top-level object.
FilterPlanShape ==
  /\ document.kind = "plan"
  /\ ~result.called
  /\ \E allOmitted \in BOOLEAN :
       result' = [called |-> TRUE,
                  FilteredJSON |->
                    Marshal(TerraformPlan,
                            filterPlanFields(Unmarshal(TerraformPlan, document.fields),
                                             allOmitted))]
  /\ UNCHANGED <<document, projectConfig, fragment, refiltered, matchVars, cmdVars, toolVars>>

NextShape == FilterShape \/ FilterPlanShape

SpecShape == InitShape /\ [][NextShape]_vars

(***************************************************************************)
(* C21                                                                     *)
(***************************************************************************)
\* C21: the JSON object that Filter (FilterPlan) emits has the top-level
\* fields of the input state (plan) document, none dropped and none added.
C21_SameTopLevelFields ==
  result.called => DOMAIN result.FilteredJSON = DOMAIN document.fields

(***************************************************************************)
(* report.go: the text report of a dry run and the verbose preview.        *)
(* What is printed is kept as a sequence of lines, each a record.          *)
(***************************************************************************)
Digits == {"0","1","2","3","4","5","6","7","8","9"}

Drop(p, n) == SubSeq(p, n + 1, Len(p))

\* How many digits p starts with: the greedy match of \d+.
RECURSIVE digitsAt(_)
digitsAt(p) == IF p # <<>> /\ Head(p) \in Digits THEN 1 + digitsAt(Tail(p)) ELSE 0

\* How many characters other than a quote p starts with: the greedy match
\* of [^"]+.
RECURSIVE nonQuotesAt(_)
nonQuotesAt(p) == IF p # <<>> /\ Head(p) # "\"" THEN 1 + nonQuotesAt(Tail(p)) ELSE 0

\* The length of the match of \[\d+\] at the front of p, 0 when none.
numericIndexAt(p) ==
  IF /\ Len(p) >= 3
     /\ p[1] = "["
     /\ digitsAt(Tail(p)) >= 1
     /\ Len(p) >= digitsAt(Tail(p)) + 2
     /\ p[digitsAt(Tail(p)) + 2] = "]"
    THEN digitsAt(Tail(p)) + 2
    ELSE 0

\* The length of the match of \["[^"]+"\] at the front of p, 0 when none.
quotedIndexAt(p) ==
  IF /\ Len(p) >= 5
     /\ p[1] = "["
     /\ p[2] = "\""
     /\ nonQuotesAt(Drop(p, 2)) >= 1
     /\ Len(p) >= nonQuotesAt(Drop(p, 2)) + 4
     /\ p[nonQuotesAt(Drop(p, 2)) + 3] = "\""
     /\ p[nonQuotesAt(Drop(p, 2)) + 4] = "]"
    THEN nonQuotesAt(Drop(p, 2)) + 4
    ELSE 0

\* The length of the match of indexPattern at the front of p.
indexPatternAt(p) == IF numericIndexAt(p) > 0 THEN numericIndexAt(p) ELSE quotedIndexAt(p)

\* indexPattern.ReplaceAllString(path, "[*]")
RECURSIVE ReplaceAllString(_)
ReplaceAllString(path) ==
  IF path = <<>>
    THEN <<>>
  ELSE IF indexPatternAt(path) > 0
    THEN <<"[","*","]">> \o ReplaceAllString(Drop(path, indexPatternAt(path)))
  ELSE <<Head(path)>> \o ReplaceAllString(Tail(path))

\* One iteration of groupAttributeOmissions' loop: grouped is the map so
\* far, normalizedPath the key of o.
groupStep(grouped, o, normalizedPath) ==
  IF normalizedPath \in DOMAIN grouped
    THEN [grouped EXCEPT ![normalizedPath].count = @ + 1]
    ELSE (normalizedPath :> [count |-> 1, reason |-> o.Reason, originalPath |-> o.Path])
           @@ grouped

\* The map after the first n iterations of the loop.
RECURSIVE groupFrom(_, _)
groupFrom(omissions, n) ==
  IF n = 0
    THEN <<>>
    ELSE groupStep(groupFrom(omissions, n - 1), omissions[n],
                   ReplaceAllString(omissions[n].Path))

\* Returns the map from normalized path to groupedOmission.
groupAttributeOmissions(omissions) == groupFrom(omissions, Len(omissions))

\* The characters of paths in the order of their bytes.
ByteOrder ==
  <<" ", "\"", "'", "*", ".", "0","1","2","3","4","5","6","7","8","9", "<", ">",
    "A","B","C","D","E","F","G","H","I","J","K","L","M","N","O","P","Q","R","S","T",
    "U","V","W","X","Y","Z", "[", "]", "_",
    "a","b","c","d","e","f","g","h","i","j","k","l","m","n","o","p","q","r","s","t",
    "u","v","w","x","y","z">>

Byte(c) == CHOOSE i \in 1..Len(ByteOrder) : ByteOrder[i] = c

\* Go's s < t on strings.
RECURSIVE StringLess(_, _)
StringLess(s, t) ==
  IF t = <<>> THEN FALSE
  ELSE IF s = <<>> THEN TRUE
  ELSE IF Head(s) = Head(t) THEN StringLess(Tail(s), Tail(t))
  ELSE Byte(Head(s)) < Byte(Head(t))

\* The less function printGroupedAttributes sorts with.
groupLess(grouped, p, q) ==
  IF grouped[p].count # grouped[q].count
    THEN grouped[p].count > grouped[q].count
    ELSE StringLess(p, q)

\* sort.Slice of the keys of grouped by groupLess, which orders any two
\* different keys.
RECURSIVE sortedPaths(_, _)
sortedPaths(grouped, keys) ==
  IF keys = {}
    THEN <<>>
    ELSE <<CHOOSE p \in keys : \A q \in keys \ {p} : groupLess(grouped, p, q)>>
           \o sortedPaths(grouped,
                          keys \ {CHOOSE p \in keys : \A q \in keys \ {p} : groupLess(grouped, p, q)})

\* The lines of one group: the normalized path with its count, or the
\* original path of a single occurrence.
groupLine(info, path) ==
  IF info.count > 1
    THEN [kind |-> "group", path |-> path, count |-> info.count, reason |-> info.reason]
    ELSE [kind |-> "group", path |-> info.originalPath, count |-> 1, reason |-> info.reason]

\* A faulty variant of printGroupsFrom: the limit is tested with > instead
\* of >=, so one group too many is printed before the summary line.
RECURSIVE printGroupsFromLate(_, _, _, _, _)
printGroupsFromLate(grouped, paths, i, shown, maxShow) ==
  IF i > Len(paths)
    THEN <<>>
  ELSE IF shown > maxShow
    THEN <<[kind |-> "more", remaining |-> Len(paths) - maxShow]>>
  ELSE <<groupLine(grouped[paths[i]], paths[i])>>
         \o printGroupsFromLate(grouped, paths, i + 1, shown + 1, maxShow)

\* The loop of printGroupedAttributes from the i-th sorted path on; shown
\* groups have been printed.
RECURSIVE printGroupsFrom(_, _, _, _, _)
printGroupsFrom(grouped, paths, i, shown, maxShow) ==
  IF i > Len(paths)
    THEN <<>>
  ELSE IF shown >= maxShow
    THEN <<[kind |-> "more", remaining |-> Len(paths) - maxShow]>>
  ELSE <<groupLine(grouped[paths[i]], paths[i])>>
         \o printGroupsFrom(grouped, paths, i + 1, shown + 1, maxShow)

printGroupedAttributes(grouped, maxShow) ==
  printGroupsFrom(grouped, sortedPaths(grouped, DOMAIN grouped), 1, 0, maxShow)

\* The categories printTextReport separates the omissions into.
platformAttributeOmissions(omissions) ==
  SelectSeq(omissions, LAMBDA o : o.FromPlatform /\ o.Type # "resource")

platformResourceOmissions(omissions) ==
  SelectSeq(omissions, LAMBDA o : o.FromPlatform /\ o.Type = "resource")

dataSourceOmissions(omissions) ==
  SelectSeq(omissions, LAMBDA o : /\ ~o.FromPlatform
                                  /\ o.Type = "resource"
                                  /\ o.Reason = <<"data source lookup omitted">>)

resourceOmissions(omissions) ==
  SelectSeq(omissions, LAMBDA o : /\ ~o.FromPlatform
                                  /\ o.Type = "resource"
                                  /\ o.Reason # <<"data source lookup omitted">>)

attributeOmissions(omissions) ==
  SelectSeq(omissions, LAMBDA o : ~o.FromPlatform /\ o.Type # "resource")

resourceLines(omissions) ==
  [i \in 1..Len(omissions) |->
     [kind |-> "resource", path |-> omissions[i].Path, reason |-> omissions[i].Reason]]

\* printTextReport after the summary, for a result with omissions: the
\* organization section, the data-source line, the resources, the
\* attributes.
printTextReport(res) ==
  [platform |->
     resourceLines(platformResourceOmissions(res.Omissions))
       \o printGroupedAttributes(
            groupAttributeOmissions(platformAttributeOmissions(res.Omissions)), 10),
   dataSources |-> Len(dataSourceOmissions(res.Omissions)),
   resources |-> resourceLines(resourceOmissions(res.Omissions)),
   attributes |->
     printGroupedAttributes(groupAttributeOmissions(attributeOmissions(res.Omissions)), 20)]

\* The loop of PrintVerboseOmissions from the i-th (0-based) omission on.
RECURSIVE verboseFrom(_, _, _)
verboseFrom(omissions, i, maxShow) ==
  IF i >= Len(omissions)
    THEN <<>>
  ELSE IF i >= maxShow
    THEN <<[kind |-> "more", remaining |-> Len(omissions) - maxShow]>>
  ELSE <<[kind |-> omissions[i + 1].Type, path |-> omissions[i + 1].Path]>>
         \o verboseFrom(omissions, i + 1, maxShow)

\* The lines PrintVerboseOmissions logs after its headline.
PrintVerboseOmissions(res) ==
  IF Len(res.Omissions) = 0 THEN <<>> ELSE verboseFrom(res.Omissions, 0, 5)

(***************************************************************************)
(* Specification SpecReport: Filter on a state, then the dry-run text      *)
(* report or the verbose preview of the result.                            *)
(***************************************************************************)
\* Attribute maps with n keys password1 .. passwordn, and one whose key id
\* holds an array of two objects.
NumberedAttrs(n) == JObj([key \in {NPassword \o Itoa(i) : i \in 1..n} |-> JStr(<<"x">>)])

ArrayAttrs ==
  JObj(NId :> JArr(<<JObj(NPassword :> JStr(<<"x">>)), JObj(NPassword :> JStr(<<"x">>))>>))

ReportAttributeCounts == {1, 3, 11, 20, 21}

\* The index keys of the instances of a resource without count or
\* for_each, with count (which has index keys or, in older states, only
\* positions) and with for_each.
ReportIndexKeys ==
  { <<JNull>>, <<JNull, JNull>>, <<JNum(0), JNum(1)>>, <<JStr(<<"a">>), JStr(<<"b">>)>> }

ReportStates ==
  {State(JNull,
         <<Resource("managed", TDb, <<"a">>,
                    [i \in 1..Len(keys) |-> Instance(keys[i], attrs, <<>>)])>>) :
     keys \in ReportIndexKeys,
     attrs \in {NumberedAttrs(n) : n \in ReportAttributeCounts} \cup {ArrayAttrs}}

InitReport ==
  /\ document \in [kind : {"state"}, doc : ReportStates]
  /\ projectConfig = NoConfigFile
  /\ fragment \in {f \in PlatformFragments : TDb \notin Range(f.AdditionalOmitTypes)}
  /\ result = NotFiltered
  /\ refiltered = NotFiltered
  /\ MatchIdle
  /\ CmdIdle
  /\ report = NoTool
  /\ workflow = NoTool
  /\ environ = NoTool
  /\ cache = NoTool
  /\ calls = NoTool

\* PrintDryRunReport with the text format, lines 37-45 and 64-164; the two
\* maps that groupAttributeOmissions returned are kept beside the lines.
PrintDryRunReport ==
  /\ result.called
  /\ report = NoTool
  /\ report' = [used |-> TRUE, format |-> "text",
                text |-> printTextReport(result),
                platformGrouped |->
                  groupAttributeOmissions(platformAttributeOmissions(result.Omissions)),
                grouped |-> groupAttributeOmissions(attributeOmissions(result.Omissions))]
  /\ UNCHANGED <<filterVars, matchVars, cmdVars, workflow, environ, cache, calls>>

\* PrintVerboseOmissions, lines 236-259.
LogVerboseOmissions ==
  /\ result.called
  /\ report = NoTool
  /\ report' = [used |-> TRUE, format |-> "verbose", lines |-> PrintVerboseOmissions(result)]
  /\ UNCHANGED <<filterVars, matchVars, cmdVars, workflow, environ, cache, calls>>

NextReport == DoFilter \/ PrintDryRunReport \/ LogVerboseOmissions

SpecReport == InitReport /\ [][NextReport]_vars

(***************************************************************************)
(* C22                                                                     *)
(***************************************************************************)
\* path without its index tokens: everything from a [ to the next ] is
\* left out.
RECURSIVE WithoutIndexTokens(_, _)
WithoutIndexTokens(path, inside) ==
  IF path = <<>> THEN <<>>
  ELSE IF Head(path) = "[" THEN WithoutIndexTokens(Tail(path), TRUE)
  ELSE IF Head(path) = "]" THEN WithoutIndexTokens(Tail(path), FALSE)
  ELSE IF inside THEN WithoutIndexTokens(Tail(path), TRUE)
  ELSE <<Head(path)>> \o WithoutIndexTokens(Tail(path), FALSE)

SameButForIndexTokens(p, q) == WithoutIndexTokens(p, FALSE) = WithoutIndexTokens(q, FALSE)

\* Every omission of the list lies in a group whose count is the number
\* of omissions of the list that differ from it in index tokens only, and
\* the counts of the groups sum to the length of the list.
GroupedByIndexFreePath(omissions, grouped) ==
  /\ \A i \in 1..Len(omissions) :
       \E g \in DOMAIN grouped :
         /\ SameButForIndexTokens(g, omissions[i].Path)
         /\ grouped[g].count
              = Cardinality({j \in 1..Len(omissions) :
                               SameButForIndexTokens(omissions[j].Path, omissions[i].Path)})
  /\ SumSeq([i \in 1..Cardinality(DOMAIN grouped) |->
               grouped[SetToSeq(DOMAIN grouped)[i]].count]) = Len(omissions)

\* C22: in the text report two attribute omissions whose paths differ only
\* in index tokens (an array index, a positional instance index, an
\* instance index key as the filter writes it) are in the same group, and
\* the counts of the groups sum to the number of omissions grouped.
C22_IndexTokensCollapse ==
  (report.used /\ report.format = "text") =>
    /\ GroupedByIndexFreePath(attributeOmissions(result.Omissions), report.grouped)
    /\ GroupedByIndexFreePath(platformAttributeOmissions(result.Omissions),
                              report.platformGrouped)

(***************************************************************************)
(* C26                                                                     *)
(***************************************************************************)
LinesOfKind(lines, kinds) == SelectSeq(lines, LAMBDA l : l.kind \in kinds)

\* lines show at most limit of total entries and, when there are more, end
\* with one summary line that gives the number of entries not shown.
TruncatedAt(lines, shownKinds, total, limit) ==
  /\ Len(LinesOfKind(lines, shownKinds)) = IF total > limit THEN limit ELSE total
  /\ Len(LinesOfKind(lines, {"more"})) = IF total > limit THEN 1 ELSE 0
  /\ total > limit =>
       /\ lines[Len(lines)].kind = "more"
       /\ lines[Len(lines)].remaining = total - Len(LinesOfKind(lines, shownKinds))
       /\ lines[Len(lines)].remaining = total - limit

\* C26: printGroupedAttributes prints at most maxShow groups (10 in the
\* organization section, 20 in the attribute section) and, when there are
\* more, one summary line with the number of groups not printed;
\* PrintVerboseOmissions prints at most the first 5 omissions in list
\* order and, when there are more, one line with the total minus 5.
C26_ReportsTruncate ==
  /\ (report.used /\ report.format = "text") =>
       /\ TruncatedAt(report.text.attributes, {"group"},
                      Cardinality(DOMAIN report.grouped), 20)
       /\ TruncatedAt(report.text.platform, {"group"},
                      Cardinality(DOMAIN report.platformGrouped), 10)
  /\ (report.used /\ report.format = "verbose") =>
       /\ TruncatedAt(report.lines, {"attribute", "resource"}, Len(result.Omissions), 5)
       /\ \A i \in 1..Len(LinesOfKind(report.lines, {"attribute", "resource"})) :
            /\ report.lines[i].path = result.Omissions[i].Path
            /\ report.lines[i].kind = result.Omissions[i].Type

\* A text report whose attribute section holds more than 20 groups and
\* ends with the summary line.
C26_Witness ==
  /\ report.used
  /\ report.format = "text"
  /\ Cardinality(DOMAIN report.grouped) > 20
  /\ report.text.attributes[Len(report.text.attributes)].kind = "more"
  /\ report.text.attributes[Len(report.text.attributes)].remaining >= 1

(***************************************************************************)
(* cmd/atlantis.go: adding the cora steps to the workflows of an           *)
(* atlantis.yaml.  A step is a string or a map, as yaml.v3 decodes it.     *)
(***************************************************************************)
MaxSteps == 3
MaxRuns == 2

FilterIdle ==
  /\ document = [kind |-> "none"]
  /\ projectConfig = NoConfigFile
  /\ fragment = JNull
  /\ result = NotFiltered
  /\ refiltered = NotFiltered

\* strings.Contains(s, substr)
Contains(s, substr) ==
  \E i \in 1..(Len(s) - Len(substr) + 1) : SubSeq(s, i, i + Len(substr) - 1) = substr

StrInit ==
  <<"i","n","i","t">>

StrPlan ==
  <<"p","l","a","n">>

StrApply ==
  <<"a","p","p","l","y">>

StrRun ==
  <<"r","u","n">>

StrExtraArgs ==
  <<"e","x","t","r","a","_","a","r","g","s">>

StrCoraReview ==
  <<"c","o","r","a"," ","r","e","v","i","e","w">>

StrCoraUpload ==
  <<"c","o","r","a"," ","u","p","l","o","a","d">>

StrReviewCommand ==
  <<"t","e","r","r","a","f","o","r","m"," ","s","h","o","w"," ","-","j","s","o","n"," ",
    "$","P","L","A","N","F","I","L","E"," ","|"," ","c","o","r","a"," ","r","e","v","i",
    "e","w">>

StrUploadCommand ==
  <<"t","e","r","r","a","f","o","r","m"," ","s","h","o","w"," ","-","j","s","o","n"," ",
    "|"," ","c","o","r","a"," ","u","p","l","o","a","d">>

\* A user's command that pipes the plan to cora review with a flag, and
\* one that echoes.
StrReviewWithFlag ==
  <<"s","h","o","w"," ","|"," ","c","o","r","a"," ","r","e","v","i","e","w"," ","-",
    "q">>

StrEcho ==
  <<"e","c","h","o"," ","o","k">>


\* The step the functions insert: a map with the key run.
coraReviewStep == JObj(StrRun :> JStr(StrReviewCommand))
coraUploadStep == JObj(StrRun :> JStr(StrUploadCommand))

\* A nil *AtlantisStage, and a stage with its steps.
NilStage == [nil |-> TRUE]
AtlantisStage(steps) == [nil |-> FALSE, Steps |-> steps]

\* isCoraStep: a map whose run value is a string containing command, or a
\* string containing command.
isCoraStep(step, command) ==
  \/ /\ step.k = "obj"
     /\ StrRun \in DOMAIN step.o
     /\ step.o[StrRun].k = "str"
     /\ Contains(step.o[StrRun].s, command)
  \/ /\ step.k = "str"
     /\ Contains(step.s, command)

\* A faulty variant of hasCoraStep that only recognizes a step that is
\* exactly the command.
hasCoraStepExact(steps, command) ==
  \E i \in 1..Len(steps) :
    \/ /\ steps[i].k = "obj"
       /\ StrRun \in DOMAIN steps[i].o
       /\ steps[i].o[StrRun].k = "str"
       /\ steps[i].o[StrRun].s = command
    \/ /\ steps[i].k = "str"
       /\ steps[i].s = command

\* hasCoraStep: the same test as isCoraStep, over the list.
hasCoraStep(steps, command) ==
  \E i \in 1..Len(steps) :
    \/ /\ steps[i].k = "obj"
       /\ StrRun \in DOMAIN steps[i].o
       /\ steps[i].o[StrRun].k = "str"
       /\ Contains(steps[i].o[StrRun].s, command)
    \/ /\ steps[i].k = "str"
       /\ Contains(steps[i].s, command)

\* The first loop of addCoraReviewStep and addCoraUploadStep: with force
\* the first cora step is removed in place, steps[:i] and steps[i+1:]
\* being appended in the backing array of steps.
removeFirstCoraStep(steps, command, force) ==
  IF force /\ \E i \in 1..Len(steps) : isCoraStep(steps[i], command)
    THEN LET i == CHOOSE j \in 1..Len(steps) :
                    /\ isCoraStep(steps[j], command)
                    /\ \A h \in 1..(j - 1) : ~isCoraStep(steps[h], command)
         IN SubSeq(steps, 1, i - 1) \o SubSeq(steps, i + 1, Len(steps))
    ELSE steps

\* A faulty variant of insertIndexAfter that gives the index of the step
\* named instead of the index after it.
insertIndexAt(steps, name, insertIdx) ==
  IF \E i \in 1..Len(steps) : steps[i] = JStr(name)
    THEN (CHOOSE i \in 1..Len(steps) :
            /\ steps[i] = JStr(name)
            /\ \A h \in 1..(i - 1) : steps[h] # JStr(name)) - 1
    ELSE insertIdx

\* The second loop: the index after the first step that is the string
\* named, otherwise the value insertIdx was given before the first loop.
\* The value is Go's index, the number of steps that precede the new one.
insertIndexAfter(steps, name, insertIdx) ==
  IF \E i \in 1..Len(steps) : steps[i] = JStr(name)
    THEN CHOOSE i \in 1..Len(steps) :
           /\ steps[i] = JStr(name)
           /\ \A h \in 1..(i - 1) : steps[h] # JStr(name)
    ELSE insertIdx

\* The insertion: steps[:insertIdx], coraStep, steps[insertIdx:].  When the
\* first loop shortened steps and insertIdx is still the old length,
\* steps[insertIdx:] is out of range and the program panics.
insertStep(steps, coraStep, insertIdx) ==
  IF insertIdx > Len(steps)
    THEN [panic |-> TRUE, steps |-> <<>>]
    ELSE [panic |-> FALSE,
          steps |-> SubSeq(steps, 1, insertIdx) \o <<coraStep>>
                      \o SubSeq(steps, insertIdx + 1, Len(steps))]

addCoraReviewStep(steps, force) ==
  insertStep(removeFirstCoraStep(steps, StrCoraReview, force), coraReviewStep,
             insertIndexAfter(removeFirstCoraStep(steps, StrCoraReview, force),
                              StrPlan, Len(steps)))

addCoraUploadStep(steps, force) ==
  insertStep(removeFirstCoraStep(steps, StrCoraUpload, force), coraUploadStep,
             insertIndexAfter(removeFirstCoraStep(steps, StrCoraUpload, force),
                              StrApply, Len(steps)))

\* The stages createCoraWorkflow and addCoraSteps create.
newPlanStage == AtlantisStage(<<JStr(StrInit), JStr(StrPlan), coraReviewStep>>)
newApplyStage == AtlantisStage(<<JStr(StrApply), coraUploadStep>>)

\* One stage of addCoraSteps: the stage afterwards, whether it was
\* modified and whether the step function panicked.
addToStage(stage, command, added, created, force) ==
  IF ~stage.nil
    THEN IF ~hasCoraStep(stage.Steps, command) \/ force
           THEN [stage |-> IF added.panic THEN stage ELSE AtlantisStage(added.steps),
                 modified |-> TRUE, panic |-> added.panic]
           ELSE [stage |-> stage, modified |-> FALSE, panic |-> FALSE]
    ELSE [stage |-> created, modified |-> TRUE, panic |-> FALSE]

\* addCoraSteps: the plan stage, then the apply stage, which is not
\* reached when the plan stage panics.
addCoraSteps(w, force) ==
  LET plan == addToStage(w.Plan, StrCoraReview,
                         IF w.Plan.nil THEN [panic |-> FALSE, steps |-> <<>>]
                                       ELSE addCoraReviewStep(w.Plan.Steps, force),
                         newPlanStage, force)
      apply == addToStage(w.Apply, StrCoraUpload,
                          IF w.Apply.nil THEN [panic |-> FALSE, steps |-> <<>>]
                                         ELSE addCoraUploadStep(w.Apply.Steps, force),
                          newApplyStage, force)
  IN IF plan.panic
       THEN [Plan |-> w.Plan, Apply |-> w.Apply, modified |-> TRUE, panic |-> TRUE]
       ELSE [Plan |-> plan.stage,
             Apply |-> IF apply.panic THEN w.Apply ELSE apply.stage,
             modified |-> plan.modified \/ apply.modified,
             panic |-> apply.panic]

\* The steps of the workflows: plan stages and apply stages of up to
\* MaxSteps steps, among them the built-in steps as strings and as maps
\* with extra_args, cora steps and other run steps.
PlanSteps ==
  {JStr(StrInit), JStr(StrPlan), JObj(StrPlan :> JObj(StrExtraArgs :> JArr(<<>>))),
   coraReviewStep, JObj(StrRun :> JStr(StrReviewWithFlag)), JObj(StrRun :> JStr(StrEcho))}

ApplySteps == {JStr(StrApply), coraUploadStep, JStr(StrEcho)}

StepLists(S) == UNION {[1..n -> S] : n \in 0..MaxSteps}

Stages(S) == {NilStage} \cup {AtlantisStage(steps) : steps \in StepLists(S)}

NoDirectCall == [fn |-> "none"]

\* The workflows: every plan stage with a few apply stages, and every
\* apply stage with a few plan stages.
Workflows ==
  [Plan : Stages(PlanSteps),
   Apply : {NilStage, AtlantisStage(<<JStr(StrApply)>>), newApplyStage}]
  \cup
  [Plan : {NilStage, AtlantisStage(<<JStr(StrInit), JStr(StrPlan)>>), newPlanStage},
   Apply : Stages(ApplySteps)]

InitAtlantis ==
  /\ \E w \in Workflows :
       workflow = [used |-> TRUE, Plan |-> w.Plan, Apply |-> w.Apply,
                   before |-> w, runs |-> <<>>, panicked |-> FALSE,
                   direct |-> NoDirectCall]
  /\ report = NoTool
  /\ environ = NoTool
  /\ cache = NoTool
  /\ calls = NoTool
  /\ FilterIdle
  /\ MatchIdle
  /\ CmdIdle

\* cora atlantis init on one workflow: addCoraSteps(&workflow, name, force).
\* runs records the force flag and the value returned by each call.
AddCoraSteps ==
  /\ workflow.used
  /\ ~workflow.panicked
  /\ workflow.direct = NoDirectCall
  /\ Len(workflow.runs) < MaxRuns
  /\ \E force \in BOOLEAN :
       workflow' = [workflow EXCEPT
                      !.Plan = addCoraSteps(workflow, force).Plan,
                      !.Apply = addCoraSteps(workflow, force).Apply,
                      !.before = [Plan |-> workflow.Plan, Apply |-> workflow.Apply],
                      !.runs = Append(@, [force |-> force,
                                          modified |-> addCoraSteps(workflow, force).modified]),
                      !.panicked = addCoraSteps(workflow, force).panic]
  /\ UNCHANGED <<filterVars, matchVars, cmdVars, report, environ, cache, calls>>

\* A call of addCoraReviewStep on the steps of the plan stage.
AddCoraReviewStep ==
  /\ workflow.used
  /\ workflow.runs = <<>>
  /\ workflow.direct = NoDirectCall
  /\ ~workflow.Plan.nil
  /\ \E force \in BOOLEAN :
       workflow' = [workflow EXCEPT
                      !.direct = [fn |-> "addCoraReviewStep", steps |-> workflow.Plan.Steps,
                                  force |-> force,
                                  returned |-> addCoraReviewStep(workflow.Plan.Steps, force)]]
  /\ UNCHANGED <<filterVars, matchVars, cmdVars, report, environ, cache, calls>>

\* A call of addCoraUploadStep on the steps of the apply stage.
AddCoraUploadStep ==
  /\ workflow.used
  /\ workflow.runs = <<>>
  /\ workflow.direct = NoDirectCall
  /\ ~workflow.Apply.nil
  /\ \E force \in BOOLEAN :
       workflow' = [workflow EXCEPT
                      !.direct = [fn |-> "addCoraUploadStep", steps |-> workflow.Apply.Steps,
                                  force |-> force,
                                  returned |-> addCoraUploadStep(workflow.Apply.Steps, force)]]
  /\ UNCHANGED <<filterVars, matchVars, cmdVars, report, environ, cache, calls>>

NextAtlantis == AddCoraSteps \/ AddCoraReviewStep \/ AddCoraUploadStep

SpecAtlantis == InitAtlantis /\ [][NextAtlantis]_vars

(***************************************************************************)
(* C23                                                                     *)
(***************************************************************************)
\* The number of steps of a stage that run or are the command.
CoraStepCount(stage, command) ==
  IF stage.nil THEN 0
  ELSE Cardinality({i \in 1..Len(stage.Steps) : isCoraStep(stage.Steps[i], command)})

\* Every call of addCoraSteps made so far was without force.
WithoutForce == \A i \in 1..Len(workflow.runs) : ~workflow.runs[i].force

\* C23: addCoraSteps without force leaves the plan stage with a cora
\* review step and the apply stage with a cora upload step, and a second
\* application returns false, changes no step list and so adds no cora
\* step.
C23_AddCoraStepsIdempotent ==
  (workflow.used /\ WithoutForce) =>
    /\ Len(workflow.runs) >= 1 =>
         /\ ~workflow.panicked
         /\ CoraStepCount(workflow.Plan, StrCoraReview) >= 1
         /\ CoraStepCount(workflow.Apply, StrCoraUpload) >= 1
    /\ Len(workflow.runs) >= 2 =>
         /\ ~workflow.runs[Len(workflow.runs)].modified
         /\ workflow.Plan = workflow.before.Plan
         /\ workflow.Apply = workflow.before.Apply

\* Two applications without force to a workflow that had a plan stage
\* without a cora review step and no apply stage: the first one modified
\* it, the second one did not.
C23_Witness ==
  /\ workflow.used
  /\ WithoutForce
  /\ Len(workflow.runs) = 2
  /\ workflow.runs[1].modified
  /\ ~workflow.runs[2].modified
  /\ CoraStepCount(workflow.Plan, StrCoraReview) = 1
  /\ Len(workflow.Plan.Steps) = MaxSteps + 1
  /\ workflow.Apply = newApplyStage

(***************************************************************************)
(* C24                                                                     *)
(***************************************************************************)
\* out is steps with step added after the first string step named, or at
\* the end when there is none: removing that position from out gives steps.
AddedAfterFirst(steps, out, step, name) ==
  LET at == IF \E i \in 1..Len(steps) : steps[i] = JStr(name)
              THEN 1 + CHOOSE i \in 1..Len(steps) :
                         steps[i] = JStr(name) /\ \A h \in 1..(i - 1) : steps[h] # JStr(name)
              ELSE Len(steps) + 1
  IN /\ Len(out) = Len(steps) + 1
     /\ out[at] = step
     /\ \A i \in 1..Len(steps) : steps[i] = out[IF i < at THEN i ELSE i + 1]

\* C24: without force addCoraReviewStep returns the steps with exactly one
\* step added, the cora review step, directly after the first "plan" step
\* or at the end when there is none, the other steps keeping their order;
\* addCoraUploadStep does the same with the cora upload step and "apply".
C24_OneStepAddedAfterStage ==
  (workflow.used /\ workflow.direct # NoDirectCall /\ ~workflow.direct.force) =>
    /\ ~workflow.direct.returned.panic
    /\ workflow.direct.fn = "addCoraReviewStep" =>
         AddedAfterFirst(workflow.direct.steps, workflow.direct.returned.steps,
                         coraReviewStep, StrPlan)
    /\ workflow.direct.fn = "addCoraUploadStep" =>
         AddedAfterFirst(workflow.direct.steps, workflow.direct.returned.steps,
                         coraUploadStep, StrApply)

\* A call without force on steps with two "plan" steps, the first of them
\* not the last step.
C24_Witness ==
  /\ workflow.used
  /\ workflow.direct # NoDirectCall
  /\ ~workflow.direct.force
  /\ workflow.direct.fn = "addCoraReviewStep"
  /\ Cardinality({i \in 1..Len(workflow.direct.steps) :
                    workflow.direct.steps[i] = JStr(StrPlan)}) = 2
  /\ workflow.direct.steps[1] = JStr(StrPlan)
  /\ workflow.direct.returned.steps[2] = coraReviewStep

(***************************************************************************)
(* The environment package: detection of Atlantis and GitHub Actions from  *)
(* the process environment.  An environment e maps variable names to       *)
(* values, an unset variable reading as the empty string, and holds the    *)
(* file at GITHUB_EVENT_PATH.                                              *)
(***************************************************************************)
Getenv(e, name) == e.vars[name]

\* The value of a decimal digit.
DigitValue(c) == (CHOOSE i \in 1..10 : <<"0","1","2","3","4","5","6","7","8","9">>[i] = c) - 1

RECURSIVE ParseDigits(_, _)
ParseDigits(s, n) == IF s = <<>> THEN n ELSE ParseDigits(Tail(s), 10 * n + DigitValue(Head(s)))

\* strconv.Atoi with the error discarded: an optional sign and one or more
\* digits, and 0 for every other string.
Atoi(s) ==
  LET digits == IF s # <<>> /\ Head(s) \in {"+", "-"} THEN Tail(s) ELSE s
  IN IF digits = <<>> \/ \E i \in 1..Len(digits) : digits[i] \notin Digits
       THEN 0
     ELSE IF Head(s) = "-" THEN 0 - ParseDigits(digits, 0)
     ELSE ParseDigits(digits, 0)

\* The nil *DetectionResult and the nil *GitHubContext.
Nil == [nil |-> TRUE]

\* The warnings of a result: one when the PR number is 0.
Warnings(prNumber) == IF prNumber = 0 THEN 1 ELSE 0

detectAtlantis(e) ==
  IF Getenv(e, "ATLANTIS_TERRAFORM_VERSION") = <<>>
    THEN Nil
    ELSE [nil |-> FALSE,
          Name |-> "atlantis",
          repoOwner |-> Getenv(e, "BASE_REPO_OWNER"),
          repoName |-> Getenv(e, "BASE_REPO_NAME"),
          prNumber |-> Atoi(Getenv(e, "PULL_NUM")),
          commitSHA |-> Getenv(e, "HEAD_COMMIT"),
          Warnings |-> Warnings(Atoi(Getenv(e, "PULL_NUM")))]

\* strings.SplitN(s, "/", 2)
SplitN2(s) ==
  IF \E i \in 1..Len(s) : s[i] = "/"
    THEN LET i == CHOOSE j \in 1..Len(s) : s[j] = "/" /\ \A h \in 1..(j - 1) : s[h] # "/"
         IN <<SubSeq(s, 1, i - 1), SubSeq(s, i + 1, Len(s))>>
    ELSE <<s>>

StrRefsPull == <<"r","e","f","s","/","p","u","l","l","/">>

\* Whether refs/pull/(\d+)/ matches ref at position i.
refMatchesAt(ref, i) ==
  /\ i + Len(StrRefsPull) - 1 <= Len(ref)
  /\ SubSeq(ref, i, i + Len(StrRefsPull) - 1) = StrRefsPull
  /\ digitsAt(Drop(ref, i + Len(StrRefsPull) - 1)) >= 1
  /\ i + Len(StrRefsPull) + digitsAt(Drop(ref, i + Len(StrRefsPull) - 1)) <= Len(ref)
  /\ ref[i + Len(StrRefsPull) + digitsAt(Drop(ref, i + Len(StrRefsPull) - 1))] = "/"

\* extractPRNumberFromRef: the number of the leftmost match, 0 without one.
extractPRNumberFromRef(ref) ==
  IF \E i \in 1..Len(ref) : refMatchesAt(ref, i)
    THEN LET i == CHOOSE j \in 1..Len(ref) :
                    refMatchesAt(ref, j) /\ \A h \in 1..(j - 1) : ~refMatchesAt(ref, h)
         IN Atoi(SubSeq(ref, i + Len(StrRefsPull),
                        i + Len(StrRefsPull) - 1
                          + digitsAt(Drop(ref, i + Len(StrRefsPull) - 1))))
    ELSE 0

\* extractPRNumberFromEvent: file is what is at eventPath, which is
\* unreadable, not JSON, or an event with an optional pull_request object.
extractPRNumberFromEvent(eventPath, file) ==
  IF eventPath = <<>> THEN 0
  ELSE IF ~file.readable THEN 0
  ELSE IF ~file.json THEN 0
  ELSE IF ~file.PullRequest.nil THEN file.PullRequest.Number
  ELSE file.Number

\* The owner and the name taken from GITHUB_REPOSITORY.
repositoryParts(repo) ==
  IF repo # <<>> /\ Len(SplitN2(repo)) = 2
    THEN [repoOwner |-> SplitN2(repo)[1], repoName |-> SplitN2(repo)[2]]
    ELSE [repoOwner |-> <<>>, repoName |-> <<>>]

gitHubPRNumber(e) ==
  IF extractPRNumberFromRef(Getenv(e, "GITHUB_REF")) = 0
    THEN extractPRNumberFromEvent(Getenv(e, "GITHUB_EVENT_PATH"), e.eventFile)
    ELSE extractPRNumberFromRef(Getenv(e, "GITHUB_REF"))

StrTrue == <<"t","r","u","e">>

detectGitHubActions(e) ==
  IF Getenv(e, "GITHUB_ACTIONS") # StrTrue
    THEN Nil
    ELSE [nil |-> FALSE,
          Name |-> "github-actions",
          repoOwner |-> IF repositoryParts(Getenv(e, "GITHUB_REPOSITORY")).repoOwner = <<>>
                          THEN Getenv(e, "GITHUB_REPOSITORY_OWNER")
                          ELSE repositoryParts(Getenv(e, "GITHUB_REPOSITORY")).repoOwner,
          repoName |-> repositoryParts(Getenv(e, "GITHUB_REPOSITORY")).repoName,
          prNumber |-> gitHubPRNumber(e),
          commitSHA |-> Getenv(e, "GITHUB_SHA"),
          Warnings |-> Warnings(gitHubPRNumber(e))]

\* A faulty variant of Detect that checks GitHub Actions first.
DetectGitHubActionsFirst(e) ==
  IF ~detectGitHubActions(e).nil THEN detectGitHubActions(e)
  ELSE IF ~detectAtlantis(e).nil THEN detectAtlantis(e)
  ELSE Nil

Detect(e) ==
  IF ~detectAtlantis(e).nil THEN detectAtlantis(e)
  ELSE IF ~detectGitHubActions(e).nil THEN detectGitHubActions(e)
  ELSE Nil

\* GitHubContext of AtlantisEnv and of GitHubActionsEnv, which are the same.
GitHubContext(env) ==
  IF env.repoOwner = <<>> \/ env.repoName = <<>> \/ env.prNumber = 0 \/ env.commitSHA = <<>>
    THEN Nil
    ELSE [nil |-> FALSE, Owner |-> env.repoOwner, Repo |-> env.repoName,
          PRNumber |-> env.prNumber, CommitSHA |-> env.commitSHA]

\* The event files and the environments of the model.
EventFiles ==
  { [readable |-> FALSE],
    [readable |-> TRUE, json |-> FALSE],
    [readable |-> TRUE, json |-> TRUE, PullRequest |-> [nil |-> FALSE, Number |-> 7],
     Number |-> 0],
    [readable |-> TRUE, json |-> TRUE, PullRequest |-> Nil, Number |-> 8],
    [readable |-> TRUE, json |-> TRUE, PullRequest |-> Nil, Number |-> 0] }

AtlantisVariables ==
  [ATLANTIS_TERRAFORM_VERSION : {<<>>, <<"1",".","5",".","0">>},
   BASE_REPO_OWNER : {<<>>, <<"o">>},
   BASE_REPO_NAME : {<<>>, <<"r">>},
   PULL_NUM : {<<>>, <<"0">>, <<"1","2">>, <<"x">>},
   HEAD_COMMIT : {<<>>, <<"a","b","c">>}]

GitHubVariables ==
  [GITHUB_ACTIONS : {<<>>, StrTrue, <<"1">>},
   GITHUB_REPOSITORY : {<<>>, <<"o","/","r">>, <<"o","/">>},
   GITHUB_REPOSITORY_OWNER : {<<>>, <<"o">>},
   GITHUB_REF : {<<>>, <<"r","e","f","s","/","p","u","l","l","/","7","/","m","e","r","g","e">>, <<"r","e","f","s","/","h","e","a","d","s","/","m","a","i","n">>},
   GITHUB_EVENT_PATH : {<<>>, <<"/","e">>},
   GITHUB_SHA : {<<>>, <<"a","b","c">>}]

\* The environments: every Atlantis setting with a few GitHub Actions
\* settings, and every GitHub Actions setting with a few Atlantis ones.
FewAtlantisVariables ==
  {a \in AtlantisVariables :
     /\ a.BASE_REPO_OWNER = a.BASE_REPO_NAME
     /\ a.PULL_NUM \in {<<>>, <<"1","2">>}
     /\ a.HEAD_COMMIT # <<>>}

FewGitHubVariables ==
  {g \in GitHubVariables :
     /\ g.GITHUB_REPOSITORY \in {<<>>, <<"o","/","r">>}
     /\ g.GITHUB_REPOSITORY_OWNER = <<>>
     /\ g.GITHUB_REF \in {<<>>, <<"r","e","f","s","/","p","u","l","l","/","7","/","m","e","r","g","e">>}
     /\ g.GITHUB_EVENT_PATH = <<>>
     /\ g.GITHUB_SHA # <<>>}

Environments ==
  {[vars |-> a @@ g, eventFile |-> f] :
     a \in AtlantisVariables, g \in FewGitHubVariables, f \in {[readable |-> FALSE]}}
  \cup
  {[vars |-> a @@ g, eventFile |-> f] :
     a \in FewAtlantisVariables, g \in GitHubVariables, f \in EventFiles}

NotDetected == [called |-> FALSE]

InitDetect ==
  /\ \E e \in Environments :
       environ = [used |-> TRUE, vars |-> e.vars, eventFile |-> e.eventFile,
                  detected |-> NotDetected, context |-> NotDetected]
  /\ report = NoTool
  /\ workflow = NoTool
  /\ cache = NoTool
  /\ calls = NoTool
  /\ FilterIdle
  /\ MatchIdle
  /\ CmdIdle

\* environment.Detect()
DetectEnvironment ==
  /\ environ.used
  /\ environ.detected = NotDetected
  /\ environ' = [environ EXCEPT !.detected = [called |-> TRUE, result |-> Detect(environ)]]
  /\ UNCHANGED <<filterVars, matchVars, cmdVars, report, workflow, cache, calls>>

\* result.Environment.GitHubContext() on a detected environment.
CallGitHubContext ==
  /\ environ.used
  /\ environ.detected # NotDetected
  /\ ~environ.detected.result.nil
  /\ environ.context = NotDetected
  /\ environ' = [environ EXCEPT
                   !.context = [called |-> TRUE,
                                result |-> GitHubContext(environ.detected.result)]]
  /\ UNCHANGED <<filterVars, matchVars, cmdVars, report, workflow, cache, calls>>

NextDetect == DetectEnvironment \/ CallGitHubContext

SpecDetect == InitDetect /\ [][NextDetect]_vars

(***************************************************************************)
(* C25                                                                     *)
(***************************************************************************)
\* The name of the environment Detect returned, "" for nil.
DetectedName ==
  IF environ.detected.result.nil THEN "" ELSE environ.detected.result.Name

\* The variables a GitHub context of the detected environment is built from
\* are all set.
ContextVariablesSet ==
  IF DetectedName = "atlantis"
    THEN /\ environ.vars.BASE_REPO_OWNER # <<>>
         /\ environ.vars.BASE_REPO_NAME # <<>>
         /\ environ.vars.PULL_NUM # <<>>
         /\ environ.vars.HEAD_COMMIT # <<>>
    ELSE /\ environ.vars.GITHUB_REPOSITORY # <<>> \/ environ.vars.GITHUB_REPOSITORY_OWNER # <<>>
         /\ environ.vars.GITHUB_REPOSITORY # <<>>
         /\ environ.vars.GITHUB_REF # <<>> \/ environ.vars.GITHUB_EVENT_PATH # <<>>
         /\ environ.vars.GITHUB_SHA # <<>>

\* C25: Detect returns Atlantis whenever ATLANTIS_TERRAFORM_VERSION is not
\* empty, whatever GITHUB_ACTIONS is; GitHub Actions exactly when that
\* variable is empty and GITHUB_ACTIONS is "true"; nil otherwise.  The
\* environment has a GitHub context only when owner, repo, PR number and
\* commit SHA are all present.
C25_AtlantisBeforeGitHubActions ==
  /\ (environ.used /\ environ.detected # NotDetected) =>
       /\ environ.vars.ATLANTIS_TERRAFORM_VERSION # <<>> => DetectedName = "atlantis"
       /\ DetectedName = "github-actions"
            <=> /\ environ.vars.ATLANTIS_TERRAFORM_VERSION = <<>>
                /\ environ.vars.GITHUB_ACTIONS = StrTrue
       /\ (/\ environ.vars.ATLANTIS_TERRAFORM_VERSION = <<>>
           /\ environ.vars.GITHUB_ACTIONS # StrTrue) => DetectedName = ""
  /\ (environ.used /\ environ.context # NotDetected /\ ~environ.context.result.nil) =>
       /\ environ.context.result.Owner # <<>>
       /\ environ.context.result.Repo # <<>>
       /\ environ.context.result.PRNumber # 0
       /\ environ.context.result.CommitSHA # <<>>
       /\ ContextVariablesSet

\* Both variables are set, Atlantis is detected and it has a GitHub context.
C25_Witness ==
  /\ environ.used
  /\ environ.detected # NotDetected
  /\ environ.vars.ATLANTIS_TERRAFORM_VERSION # <<>>
  /\ environ.vars.GITHUB_ACTIONS = StrTrue
  /\ DetectedName = "atlantis"
  /\ environ.context # NotDetected
  /\ ~environ.context.result.nil
  /\ environ.context.result.PRNumber = 12

(***************************************************************************)
(* discovery.go: the cache of the service discovery document, used by      *)
(* concurrent calls of FetchServiceDiscovery and ClearDiscoveryCache.      *)
(* Every access of a shared variable and every lock operation is a step.   *)
(* Time is counted in half hours.                                          *)
(***************************************************************************)
NumProcs == 2
MaxOps == 3
MaxTime == 2

\* discoveryCacheTTL, one hour.
discoveryCacheTTL == 2

Procs == 1..NumProcs

\* strings.TrimSuffix(s, "/")
TrimSuffix(s) == IF s # <<>> /\ s[Len(s)] = "/" THEN SubSeq(s, 1, Len(s) - 1) ELSE s

\* The zero time.Time, and time.Since, which is very long for the zero
\* time.
ZeroTime == [zero |-> TRUE]
TimeAt(t) == [zero |-> FALSE, t |-> t]
Since(time, now) == IF time.zero THEN discoveryCacheTTL + now + 1 ELSE now - time.t

\* http.NewRequest fails when the URL does not parse, as with a space in
\* the host.
ValidURL(baseURL) == \A i \in 1..Len(baseURL) : baseURL[i] # " "

\* The base URLs calls are made with: two servers, one of them also
\* written with a trailing slash, and a URL that does not parse.
BaseURLs == {<<"a">>, <<"a","/">>, <<"b">>, <<"a"," ">>}

\* A document returned by the server at base, and the default document
\* when used for base.  The field for records which call produced it and
\* is not read by the program.
Fetched(base) == [nil |-> FALSE, kind |-> "fetched", for |-> base]
Defaulted(base) == [nil |-> FALSE, kind |-> "default", for |-> base]

\* A faulty variant of canRLock that lets a reader in while a writer holds
\* the lock.
canRLockAlways(mutex) == TRUE

\* sync.RWMutex: RLock succeeds when no writer holds the lock, Lock when
\* nobody holds it.
canRLock(mutex) == mutex.writer = 0
canLock(mutex) == mutex.writer = 0 /\ mutex.readers = {}

\* The condition of line 100.
cacheValid(c, baseURL) ==
  /\ ~c.cachedDiscovery.nil
  /\ c.cachedDiscoveryBase = baseURL
  /\ Since(c.discoveryCacheTime, c.now) < discoveryCacheTTL

Idle == [pc |-> "idle"]

InitDiscovery ==
  /\ cache = [used |-> TRUE, cachedDiscovery |-> Nil, cachedDiscoveryBase |-> <<>>,
              discoveryCacheTime |-> ZeroTime,
              discoveryMutex |-> [writer |-> 0, readers |-> {}],
              now |-> 0, ops |-> 0]
  /\ calls = [used |-> TRUE, proc |-> [p \in Procs |-> Idle]]
  /\ report = NoTool
  /\ workflow = NoTool
  /\ environ = NoTool
  /\ FilterIdle
  /\ MatchIdle
  /\ CmdIdle

DiscoveryUnchanged == UNCHANGED <<filterVars, matchVars, cmdVars, report, workflow, environ>>

\* A call of FetchServiceDiscovery(baseURL, token) begins: line 96.
FetchBegin(p) ==
  /\ calls.proc[p].pc \in {"idle", "done"}
  /\ cache.ops < MaxOps
  /\ \E baseURL \in BaseURLs :
       calls' = [calls EXCEPT !.proc[p] =
                   [pc |-> "rlock", op |-> "fetch", arg |-> baseURL,
                    baseURL |-> TrimSuffix(baseURL), discovery |-> Nil, hit |-> FALSE,
                    seen |-> Nil, requested |-> FALSE, outcome |-> "none",
                    stored |-> Nil, returned |-> Nil]]
  /\ cache' = [cache EXCEPT !.ops = @ + 1]
  /\ DiscoveryUnchanged

\* discoveryMutex.RLock(), line 99.
FetchRLock(p) ==
  /\ calls.proc[p].pc = "rlock"
  /\ canRLock(cache.discoveryMutex)
  /\ cache' = [cache EXCEPT !.discoveryMutex.readers = @ \cup {p}]
  /\ calls' = [calls EXCEPT !.proc[p].pc = "check"]
  /\ DiscoveryUnchanged

\* Lines 100-101: the three variables are read, and on a hit the pointer
\* is copied.  seen keeps what was read.
FetchCheck(p) ==
  /\ calls.proc[p].pc = "check"
  /\ calls' = [calls EXCEPT
                 !.proc[p].pc = "runlock",
                 !.proc[p].hit = cacheValid(cache, calls.proc[p].baseURL),
                 !.proc[p].discovery =
                   IF cacheValid(cache, calls.proc[p].baseURL)
                     THEN cache.cachedDiscovery ELSE Nil,
                 !.proc[p].seen =
                   [nil |-> FALSE, cachedDiscovery |-> cache.cachedDiscovery,
                    cachedDiscoveryBase |-> cache.cachedDiscoveryBase,
                    discoveryCacheTime |-> cache.discoveryCacheTime, now |-> cache.now]]
  /\ UNCHANGED cache
  /\ DiscoveryUnchanged

\* Lines 102-105: RUnlock, and on a hit the return.
FetchRUnlock(p) ==
  /\ calls.proc[p].pc = "runlock"
  /\ cache' = [cache EXCEPT !.discoveryMutex.readers = @ \ {p}]
  /\ calls' = [calls EXCEPT
                 !.proc[p].pc = IF calls.proc[p].hit THEN "done" ELSE "request",
                 !.proc[p].returned = calls.proc[p].discovery]
  /\ DiscoveryUnchanged

\* Lines 108-156: the request is built and sent.  When it cannot be built
\* the call returns nil and an error; when it fails, the status is not
\* 200 or the body cannot be read or decoded the call goes on to
\* useDefaultDiscovery; otherwise to the caching of the decoded document.
FetchRequest(p) ==
  /\ calls.proc[p].pc = "request"
  /\ IF ~ValidURL(calls.proc[p].baseURL)
       THEN calls' = [calls EXCEPT !.proc[p].pc = "done",
                                   !.proc[p].outcome = "unbuildable"]
       ELSE \E outcome \in {"ok", "failed"} :
              calls' = [calls EXCEPT
                          !.proc[p].pc = "lock",
                          !.proc[p].requested = TRUE,
                          !.proc[p].outcome = outcome,
                          !.proc[p].discovery =
                            IF outcome = "ok" THEN Fetched(calls.proc[p].baseURL)
                                              ELSE Defaulted(calls.proc[p].baseURL)]
  /\ UNCHANGED cache
  /\ DiscoveryUnchanged

\* A call of ClearDiscoveryCache begins.
ClearBegin(p) ==
  /\ calls.proc[p].pc \in {"idle", "done"}
  /\ cache.ops < MaxOps
  /\ calls' = [calls EXCEPT !.proc[p] = [pc |-> "lock", op |-> "clear"]]
  /\ cache' = [cache EXCEPT !.ops = @ + 1]
  /\ DiscoveryUnchanged

\* discoveryMutex.Lock(): lines 166, 177 and 199.
CacheLock(p) ==
  /\ calls.proc[p].pc = "lock"
  /\ canLock(cache.discoveryMutex)
  /\ cache' = [cache EXCEPT !.discoveryMutex.writer = p]
  /\ calls' = [calls EXCEPT !.proc[p].pc = "setDiscovery"]
  /\ DiscoveryUnchanged

\* The assignment to cachedDiscovery: lines 167, 178 and 200.
CacheSetDiscovery(p) ==
  /\ calls.proc[p].pc = "setDiscovery"
  /\ cache' = [cache EXCEPT !.cachedDiscovery =
                 IF calls.proc[p].op = "clear" THEN Nil ELSE calls.proc[p].discovery]
  /\ calls' = [calls EXCEPT !.proc[p].pc = "setBase"]
  /\ DiscoveryUnchanged

\* The assignment to cachedDiscoveryBase: lines 168, 179 and 201.
CacheSetBase(p) ==
  /\ calls.proc[p].pc = "setBase"
  /\ cache' = [cache EXCEPT !.cachedDiscoveryBase =
                 IF calls.proc[p].op = "clear" THEN <<>> ELSE calls.proc[p].baseURL]
  /\ calls' = [calls EXCEPT !.proc[p].pc = "setTime"]
  /\ DiscoveryUnchanged

\* The assignment to discoveryCacheTime: lines 169, 180 and 202.
CacheSetTime(p) ==
  /\ calls.proc[p].pc = "setTime"
  /\ cache' = [cache EXCEPT !.discoveryCacheTime =
                 IF calls.proc[p].op = "clear" THEN ZeroTime ELSE TimeAt(cache.now)]
  /\ calls' = [calls EXCEPT !.proc[p].pc = "unlock"]
  /\ DiscoveryUnchanged

\* discoveryMutex.Unlock() and the return: lines 170-172, 181-184 and 203.
\* stored keeps the cache entry the call leaves.
CacheUnlock(p) ==
  /\ calls.proc[p].pc = "unlock"
  /\ cache' = [cache EXCEPT !.discoveryMutex.writer = 0]
  /\ calls' = IF calls.proc[p].op = "clear"
                THEN [calls EXCEPT !.proc[p].pc = "done"]
                ELSE [calls EXCEPT
                        !.proc[p].pc = "done",
                        !.proc[p].returned = calls.proc[p].discovery,
                        !.proc[p].stored =
                          [nil |-> FALSE, cachedDiscovery |-> cache.cachedDiscovery,
                           cachedDiscoveryBase |-> cache.cachedDiscoveryBase,
                           discoveryCacheTime |-> cache.discoveryCacheTime,
                           now |-> cache.now]]
  /\ DiscoveryUnchanged

\* Half an hour passes.
Tick ==
  /\ cache.used
  /\ cache.now < MaxTime
  /\ cache' = [cache EXCEPT !.now = @ + 1]
  /\ UNCHANGED calls
  /\ DiscoveryUnchanged

NextDiscovery ==
  \/ \E p \in Procs : FetchBegin(p)
  \/ \E p \in Procs : FetchRLock(p)
  \/ \E p \in Procs : FetchCheck(p)
  \/ \E p \in Procs : FetchRUnlock(p)
  \/ \E p \in Procs : FetchRequest(p)
  \/ \E p \in Procs : ClearBegin(p)
  \/ \E p \in Procs : CacheLock(p)
  \/ \E p \in Procs : CacheSetDiscovery(p)
  \/ \E p \in Procs : CacheSetBase(p)
  \/ \E p \in Procs : CacheSetTime(p)
  \/ \E p \in Procs : CacheUnlock(p)
  \/ Tick

SpecDiscovery == InitDiscovery /\ [][NextDiscovery]_vars

(***************************************************************************)
(* C27                                                                     *)
(***************************************************************************)
\* The processes between Lock and Unlock of the write lock.
Writing == {p \in Procs : calls.proc[p].pc \in {"setDiscovery", "setBase", "setTime", "unlock"}}

\* The three cache variables belong together: all cleared, or a document
\* with the base URL it was produced for and the time it was stored.
EntryWhole(c) ==
  \/ /\ c.cachedDiscovery.nil
     /\ c.cachedDiscoveryBase = <<>>
     /\ c.discoveryCacheTime.zero
  \/ /\ ~c.cachedDiscovery.nil
     /\ c.cachedDiscovery.for = c.cachedDiscoveryBase
     /\ ~c.discoveryCacheTime.zero

\* baseURL without one trailing slash.
WithoutSlash(baseURL) ==
  IF Len(baseURL) >= 1 /\ baseURL[Len(baseURL)] = "/"
    THEN [i \in 1..(Len(baseURL) - 1) |-> baseURL[i]]
    ELSE baseURL

\* C27: under every interleaving of FetchServiceDiscovery and
\* ClearDiscoveryCache calls the cached document, its base URL and its
\* time are written only by the holder of the write lock, with no reader
\* inside, so that the entry is whole whenever the write lock is free; and
\* a call never returns a document produced for another base URL.
C27_CacheWrittenTogetherUnderLock ==
  cache.used =>
    /\ \A p \in Writing : cache.discoveryMutex.writer = p
    /\ Writing # {} => cache.discoveryMutex.readers = {}
    /\ cache.discoveryMutex.writer = 0 => EntryWhole(cache)
    /\ \A p \in Procs :
         (/\ calls.proc[p].pc = "done"
          /\ calls.proc[p].op = "fetch"
          /\ ~calls.proc[p].returned.nil)
           => calls.proc[p].returned.for = WithoutSlash(calls.proc[p].arg)

\* A call for one server is answered from the cache while the other
\* process, which replaced the entry of that server by one for the other
\* server, is between its Lock and Unlock.
C27_Witness ==
  /\ cache.used
  /\ \E p, q \in Procs :
       /\ calls.proc[p].pc = "done"
       /\ calls.proc[p].op = "fetch"
       /\ calls.proc[p].hit
       /\ calls.proc[p].returned.for = <<"a">>
       /\ calls.proc[q].pc = "unlock"
       /\ calls.proc[q].op = "fetch"
       /\ cache.cachedDiscoveryBase = <<"b">>

(***************************************************************************)
(* C28                                                                     *)
(***************************************************************************)
\* What the call of p found in the cache is a document for its base URL,
\* stored less than an hour before.
SawFreshEntry(p) ==
  /\ ~calls.proc[p].seen.cachedDiscovery.nil
  /\ calls.proc[p].seen.cachedDiscoveryBase = WithoutSlash(calls.proc[p].arg)
  /\ ~calls.proc[p].seen.discoveryCacheTime.zero
  /\ calls.proc[p].seen.now - calls.proc[p].seen.discoveryCacheTime.t < 2

\* The call of p sent a request and left its result as the cache entry,
\* stored at a time within the call, the default document when the
\* request failed.
FetchedAndStored(p) ==
  /\ calls.proc[p].requested
  /\ ~calls.proc[p].stored.nil
  /\ calls.proc[p].stored.cachedDiscovery.kind
       = IF calls.proc[p].outcome = "ok" THEN "fetched" ELSE "default"
  /\ calls.proc[p].stored.cachedDiscovery.for = WithoutSlash(calls.proc[p].arg)
  /\ calls.proc[p].stored.cachedDiscoveryBase = WithoutSlash(calls.proc[p].arg)
  /\ ~calls.proc[p].stored.discoveryCacheTime.zero
  /\ calls.proc[p].stored.discoveryCacheTime.t >= calls.proc[p].seen.now
  /\ calls.proc[p].stored.discoveryCacheTime.t <= calls.proc[p].stored.now
  /\ calls.proc[p].returned = calls.proc[p].stored.cachedDiscovery

\* C28: a call is answered from the cache, without a request, only when
\* the cache holds a document for the same base URL (trailing slash
\* ignored) stored less than one hour ago; every other call, as the next
\* one after ClearDiscoveryCache or after the hour, performs a fetch and
\* replaces the cache entry, a failed fetch storing the default document.
C28_CacheHitOnlyWhenFresh ==
  cache.used =>
    \A p \in Procs :
      (calls.proc[p].pc = "done" /\ calls.proc[p].op = "fetch") =>
        /\ calls.proc[p].hit => (~calls.proc[p].requested /\ SawFreshEntry(p))
        /\ ~SawFreshEntry(p) => FetchedAndStored(p)

(***************************************************************************)
(* C29                                                                     *)
(***************************************************************************)
\* C29: in every result of Filter and of FilterPlan the number of omitted
\* resources is at least 0 and at most the number of total resources, also
\* for a plan whose resources appear in planned_values and in prior_state.
C29_OmittedResourcesWithinTotal ==
  result.called =>
    /\ 0 <= result.Summary.OmittedResources
    /\ result.Summary.OmittedResources <= result.Summary.TotalResources

(***************************************************************************)
(* C30                                                                     *)
(***************************************************************************)
\* The documents and policies of SpecFilter, each filtered once.
NextOrder == DoFilter \/ DoFilterPlan

SpecOrder == InitFilter /\ [][NextOrder]_vars

\* What Filter or FilterPlan returns for the document when map keys are
\* visited in the order ord.
ResultWith(ord) ==
  IF document.kind = "state"
    THEN Filter(document.doc, config, ord)
    ELSE FilterPlan(document.doc, config, ord)

\* The omission lists hold the same records, each as often, and differ at
\* most in the positions of records of attributes.
SameButAttributeOrder(a, b) ==
  /\ Len(a) = Len(b)
  /\ \A i \in 1..Len(a) :
       /\ Cardinality({j \in 1..Len(a) : a[j] = a[i]})
            = Cardinality({j \in 1..Len(b) : b[j] = a[i]})
       /\ (a[i].Type # "attribute" \/ b[i].Type # "attribute") => a[i] = b[i]

\* The results r and s agree in the filtered document, in the counters and,
\* up to the positions of attribute records, in the omissions.
SameResult(r, s) ==
  /\ r.FilteredJSON = s.FilteredJSON
  /\ r.Summary = s.Summary
  /\ SameButAttributeOrder(r.Omissions, s.Omissions)

\* C30: for a fixed document and policy the filtered document, the summary
\* counters and the omission records are the same for every order in which
\* the keys of the maps are visited; only the positions of attribute
\* records in the omission list vary.
C30_KeyOrderIrrelevant ==
  result.called => \A ord \in KeyOrders : SameResult(ResultWith(ord), result)

\* A result whose omission list is in another order than the one the other
\* visiting order gives.
C30_Witness ==
  /\ result.called
  /\ \E ord \in KeyOrders :
       /\ ResultWith(ord).Omissions # result.Omissions
       /\ \E i \in 1..Len(result.Omissions) : result.Omissions[i].Type = "resource"

====
